---- MODULE Spec2Model ----
(***************************************************************************)
(* The offline audio mixing engine of the text-to-speech tester: the       *)
(* AudioMixer class (timeline, gain scheduling, break-marker parsing,      *)
(* silence detection, WAV encoding) as a state machine.                    *)
(*                                                                         *)
(* Units.  Times are integers in milliseconds (the source uses seconds as  *)
(* floating point numbers; every time the model draws is a multiple of     *)
(* 2 ms, so the one halving of the source is exact).  Gains and volumes    *)
(* are integers in 1/10000 (1.0 = 10000, 0.0001 = 1).  Samples are         *)
(* integers in 1/65536 (1.0 = 65536): half a 16-bit step, so that the      *)
(* encoder's truncation is seen.                                           *)
(***************************************************************************)
EXTENDS Integers, Sequences, FiniteSets, TLC

Null == "null"

MathMax(a, b) == IF a >= b THEN a ELSE b
MathMin(a, b) == IF a <= b THEN a ELSE b

\* ceil(n / d) for d > 0
CeilDiv(n, d) == -((-n) \div d)

\* trunc(n / d) for d > 0 (rounding toward zero, as ToInt16 of a float does)
TruncDiv(n, d) == IF n >= 0 THEN n \div d ELSE -((-n) \div d)

RECURSIVE SumSeq(_)
SumSeq(s) == IF s = <<>> THEN 0 ELSE Head(s) + SumSeq(Tail(s))

(***************************************************************************)
(* MusicConfig                                                             *)
(***************************************************************************)
MusicConfig(en, intro, fade, mvol, svol, oen, ofin, odur, ofout, brk) ==
  [enabled |-> en, introDuration |-> intro, introFadeDuration |-> fade,
   fadeType |-> "linear", musicVolume |-> mvol, speechVolume |-> svol,
   outroEnabled |-> oen, outroFadeInDuration |-> ofin, outroDuration |-> odur,
   outroFadeOutDuration |-> ofout, breakSoundEnabled |-> brk]

\* the configuration of the timeline example: 22 s intro, 7 s fade, outro
\* 15 s with a 10 s fade in and a 5 s fade out
ExampleConfig ==
  MusicConfig(TRUE, 22000, 7000, 6000, 8000, TRUE, 10000, 15000, 5000, TRUE)

\* the same with fadeType: 'exponential'
ExponentialConfig == [ExampleConfig EXCEPT !.fadeType = "exponential"]

(***************************************************************************)
(* Timeline: mixWithSpeech (totalDuration) and createMixedAudioWithOutro   *)
(***************************************************************************)
\* a faulty variant: no padding after the last stage
TotalDurationUnpadded(config, speechDuration) ==
  config.introDuration + config.introFadeDuration + speechDuration
    + (IF config.outroEnabled THEN config.outroDuration ELSE 0)

TotalDuration(config, speechDuration) ==
  config.introDuration + config.introFadeDuration + speechDuration
    + (IF config.outroEnabled THEN config.outroDuration ELSE 0) + 500

\* Math.ceil(totalDuration * sampleRate), totalDuration in ms
RenderLength(totalDuration, sampleRate) == CeilDiv(totalDuration * sampleRate, 1000)

FadeStartTime(config) == MathMax(0, config.introDuration)
FadeEndTime(config) == FadeStartTime(config) + MathMax(0, config.introFadeDuration)
\* a faulty variant: the speech starts when the fade has ended
SpeechStartsAfterFade(config) == FadeEndTime(config)
SpeechStartTime(config) ==
  FadeStartTime(config) + (MathMax(0, config.introFadeDuration) \div 2)
\* a faulty variant: the speech stage has no floor of 0.1 s
SpeechEndsUnfloored(config, speechDuration) ==
  SpeechStartTime(config) + speechDuration
SpeechEndTime(config, speechDuration) ==
  SpeechStartTime(config) + MathMax(100, speechDuration)

OutroFadeInStartRaw(config, speechDuration) ==
  SpeechEndTime(config, speechDuration) - config.outroFadeInDuration
\* "Clamp to >= 0 for safety"
OutroFadeInStart(config, speechDuration) ==
  IF OutroFadeInStartRaw(config, speechDuration) < 0 THEN 0
  ELSE OutroFadeInStartRaw(config, speechDuration)
OutroFadeInEnd(config, speechDuration) == SpeechEndTime(config, speechDuration)
OutroFullVolumeEnd(config, speechDuration) ==
  SpeechEndTime(config, speechDuration)
    + (config.outroDuration - config.outroFadeOutDuration)
OutroFadeOutEnd(config, speechDuration) ==
  SpeechEndTime(config, speechDuration) + config.outroDuration

\* the timestamps of one mix; the outro ones are computed only when the
\* outro is scheduled
Timing(config, speechDuration, outroScheduled) ==
  [fadeStartTime |-> FadeStartTime(config),
   fadeEndTime |-> FadeEndTime(config),
   speechStartTime |-> SpeechStartTime(config),
   speechEndTime |-> SpeechEndTime(config, speechDuration),
   outro |-> outroScheduled,
   outroFadeInStart |->
     IF outroScheduled THEN OutroFadeInStart(config, speechDuration) ELSE 0,
   outroFadeInEnd |->
     IF outroScheduled THEN OutroFadeInEnd(config, speechDuration) ELSE 0,
   outroFullVolumeEnd |->
     IF outroScheduled THEN OutroFullVolumeEnd(config, speechDuration) ELSE 0,
   outroFadeOutEnd |->
     IF outroScheduled THEN OutroFadeOutEnd(config, speechDuration) ELSE 0]

(***************************************************************************)
(* Gain scheduling: the calls made on each GainNode's gain AudioParam, in   *)
(* program order.  A call is setValueAtTime or linearRampToValueAtTime.     *)
(***************************************************************************)
SetValueAtTime(v, t) == [op |-> "setValueAtTime", value |-> v, time |-> t]
LinearRampToValueAtTime(v, t) ==
  [op |-> "linearRampToValueAtTime", value |-> v, time |-> t]

\* Math.min(1, config.musicVolume * 1.2)
OutroVolume(config) == MathMin(10000, (config.musicVolume * 12) \div 10)

MusicIntroGainCalls(config) ==
  << SetValueAtTime(config.musicVolume, 0),
     SetValueAtTime(config.musicVolume, FadeStartTime(config)),
     LinearRampToValueAtTime(0, FadeEndTime(config)) >>

SpeechGainCalls(config) ==
  << SetValueAtTime(0, 0),
     SetValueAtTime(0, SpeechStartTime(config)),
     LinearRampToValueAtTime(config.speechVolume, SpeechStartTime(config) + 1000) >>

\* musicOutroGain exists when config.outroEnabled; the outro is scheduled
\* when a source exists too (an outro buffer could be resolved)
MusicOutroGainCalls(config, speechDuration, outroScheduled) ==
  (IF config.outroEnabled THEN << SetValueAtTime(0, 0) >> ELSE << >>)
  \o
  (IF outroScheduled
   THEN << SetValueAtTime(0, MathMax(0, OutroFadeInStart(config, speechDuration))),
           LinearRampToValueAtTime(OutroVolume(config),
             MathMax(OutroFadeInStart(config, speechDuration),
                     OutroFadeInEnd(config, speechDuration))),
           SetValueAtTime(OutroVolume(config),
                          OutroFullVolumeEnd(config, speechDuration)),
           LinearRampToValueAtTime(0, OutroFadeOutEnd(config, speechDuration)) >>
   ELSE << >>)

\* AudioParam.setValueAtTime / linearRampToValueAtTime and
\* AudioBufferSourceNode.start throw a RangeError for a negative time
ThrowsRangeError(callSeq) == \E i \in 1..Len(callSeq) : callSeq[i].time < 0

(***************************************************************************)
(* AudioBuffer: sampleRate, numberOfChannels and the sample data, kept as   *)
(* runs of frames with one constant sample value per channel.               *)
(***************************************************************************)
Run(n, amp) == [n |-> n, amp |-> amp]
AudioBuffer(rate, channels, runs) ==
  [sampleRate |-> rate, numberOfChannels |-> channels, runs |-> runs]

RECURSIVE RunsLength(_)
RunsLength(runs) ==
  IF runs = <<>> THEN 0 ELSE Head(runs).n + RunsLength(Tail(runs))

\* AudioBuffer.length (frames) and AudioBuffer.duration (ms)
\* the absent speechBuffer argument (speechBuffer?: AudioBuffer)
NoBuffer == [sampleRate |-> 0, numberOfChannels |-> 0, runs |-> <<>>]

BufferLength(buffer) == RunsLength(buffer.runs)
BufferDuration(buffer) == (BufferLength(buffer) * 1000) \div buffer.sampleRate

Abs(x) == IF x < 0 THEN -x ELSE x

(***************************************************************************)
(* Bytes.  speechAudioData is a base64 string, kept as its sequence of     *)
(* 6-bit digits (0..63, a multiple of 4 of them: no padding).              *)
(***************************************************************************)
\* atob: four digits give three bytes
RECURSIVE Atob(_)
Atob(b64) ==
  IF Len(b64) < 4 THEN <<>>
  ELSE << b64[1] * 4 + (b64[2] \div 16),
          (b64[2] % 16) * 16 + (b64[3] \div 4),
          (b64[3] % 4) * 64 + b64[4] >> \o Atob(SubSeq(b64, 5, Len(b64)))

\* btoa, the inverse (what the synthesis service does to its audio bytes)
RECURSIVE Btoa(_)
Btoa(bytes) ==
  IF Len(bytes) < 3 THEN <<>>
  ELSE << bytes[1] \div 4,
          (bytes[1] % 4) * 16 + (bytes[2] \div 16),
          (bytes[2] % 16) * 4 + (bytes[3] \div 64),
          bytes[3] % 64 >> \o Btoa(SubSeq(bytes, 4, Len(bytes)))

Blob(type, bytes) == [type |-> type, bytes |-> bytes]

\* new Blob([byteArray], { type: 'audio/mp3' }) of the decoded characters
base64ToBlob(base64) == Blob("audio/mp3", Atob(base64))

(***************************************************************************)
(* decodeAudioData, the browser's decoder.  The encoded audio of the model *)
(* is a sync byte 255 followed by one byte per run of frames: the high     *)
(* four bits give the run's duration in units of 250 ms, the low four bits *)
(* its sample value, (code - 8) / 8.  The decoder resamples to the         *)
(* sample rate of the context and rejects bytes without the sync byte.     *)
(***************************************************************************)
DecodeFails(bytes) == Len(bytes) = 0 \/ bytes[1] # 255

RECURSIVE DecodeRuns(_, _)
DecodeRuns(bytes, sampleRate) ==
  IF bytes = <<>> THEN <<>>
  ELSE LET n == ((Head(bytes) \div 16) * 250 * sampleRate) \div 1000
           amp == ((Head(bytes) % 16) - 8) * 8192
       IN (IF n > 0 THEN << Run(n, <<amp>>) >> ELSE <<>>)
          \o DecodeRuns(Tail(bytes), sampleRate)

decodeAudioData(bytes, sampleRate) ==
  AudioBuffer(sampleRate, 1, DecodeRuns(Tail(bytes), sampleRate))

(***************************************************************************)
(* audioBufferToBlob: the WAV encoder                                      *)
(***************************************************************************)
\* DataView.setUint16 / setUint32 / setInt16 with littleEndian = true
Uint16LE(n) == << (n % 65536) % 256, (n % 65536) \div 256 >>
Uint32LE(n) ==
  << n % 256, (n \div 256) % 256, (n \div 65536) % 256, (n \div 16777216) % 256 >>
Int16LE(n) == Uint16LE(n)

\* writeString: the character codes of 'RIFF', 'WAVE', 'fmt ', 'data'
RIFF == <<82, 73, 70, 70>>
WAVE == <<87, 65, 86, 69>>
FMT == <<102, 109, 116, 32>>
DATA == <<100, 97, 116, 97>>

\* a faulty variant: one scale for both signs
IntSampleOneScale(sample) == TruncDiv(sample * 16384, 32768)

\* sample < 0 ? sample * 0x8000 : sample * 0x7FFF, then setInt16 (which
\* truncates toward zero and wraps modulo 2^16)
IntSample(sample) ==
  IF sample < 0 THEN TruncDiv(sample * 16384, 32768)
  ELSE (sample \div 65536) * 32767 + TruncDiv((sample % 65536) * 32767, 65536)

\* the frames of the buffer, each the sequence of its channels' samples
RECURSIVE Frames(_)
Frames(runs) ==
  IF runs = <<>> THEN <<>>
  ELSE [i \in 1..Head(runs).n |-> Head(runs).amp] \o Frames(Tail(runs))

RECURSIVE FrameBytes(_)
FrameBytes(frame) ==
  IF frame = <<>> THEN <<>>
  ELSE Int16LE(IntSample(Head(frame))) \o FrameBytes(Tail(frame))

\* the interleaved samples of frames[from..to]
RECURSIVE SampleBytes(_, _, _)
SampleBytes(frames, from, to) ==
  IF from > to THEN <<>>
  ELSE IF from = to THEN FrameBytes(frames[from])
  ELSE LET mid == (from + to) \div 2
       IN SampleBytes(frames, from, mid) \o SampleBytes(frames, mid + 1, to)

\* a faulty variant: the byte rate and the sizes of one channel only
WavHeaderOfOneChannel(numberOfChannels, sampleRate, length) ==
  RIFF \o Uint32LE(36 + length * 2) \o WAVE \o FMT \o Uint32LE(16)
  \o Uint16LE(1) \o Uint16LE(numberOfChannels) \o Uint32LE(sampleRate)
  \o Uint32LE(sampleRate * 2) \o Uint16LE(2) \o Uint16LE(16)
  \o DATA \o Uint32LE(length * 2)

WavHeader(numberOfChannels, sampleRate, length) ==
  LET blockAlign == numberOfChannels * 2
      byteRate == sampleRate * blockAlign
      dataSize == length * blockAlign
      bufferSize == 44 + dataSize
  IN RIFF \o Uint32LE(bufferSize - 8) \o WAVE \o FMT \o Uint32LE(16)
     \o Uint16LE(1) \o Uint16LE(numberOfChannels) \o Uint32LE(sampleRate)
     \o Uint32LE(byteRate) \o Uint16LE(blockAlign) \o Uint16LE(16)
     \o DATA \o Uint32LE(dataSize)

audioBufferToBlob(buffer) ==
  LET frames == Frames(buffer.runs)
  IN Blob("audio/wav",
          WavHeader(buffer.numberOfChannels, buffer.sampleRate, BufferLength(buffer))
            \o SampleBytes(frames, 1, Len(frames)))

(***************************************************************************)
(* detectSilenceSegments                                                   *)
(***************************************************************************)
\* sum over the frames j in [s, e) of |sum over the channels of data[ch][j]|;
\* the mono mixdown mono[j] is this channel sum divided by the channel count
RECURSIVE WindowAbsSum(_, _, _, _)
WindowAbsSum(runs, off, s, e) ==
  IF runs = <<>> THEN 0
  ELSE LET r == Head(runs)
           lo == MathMax(s, off)
           hi == MathMin(e, off + r.n)
       IN (IF hi > lo THEN (hi - lo) * Abs(SumSeq(r.amp)) ELSE 0)
          + WindowAbsSum(Tail(runs), off + r.n, s, e)

SilenceStep(sampleRate) == MathMax(1, sampleRate \div 100)
\* a faulty variant: a window of 0.3 s
SilenceWinLong(sampleRate) == MathMax(1, (sampleRate * 30) \div 100)

SilenceWin(sampleRate) == MathMax(1, (sampleRate * 5) \div 100)

\* avg < threshold, with avg = sum / (count || 1) and threshold = 0.015
WindowSilent(buffer, i) ==
  LET e == MathMin(BufferLength(buffer), i + SilenceWin(buffer.sampleRate))
      count == e - i
      sum == WindowAbsSum(buffer.runs, 0, i, e)
  \* sum / channels / count < 15/1000, with 1.0 = 65536 and 15/1000 = 3 * 8192
  \* / (25 * 65536); the division is rounded up so that the comparison with the
  \* integer sum is exact
  IN sum < CeilDiv(3 * 8192 * buffer.numberOfChannels
                     * (IF count = 0 THEN 1 ELSE count), 25)

\* a candidate segment of frames [startSample, endSample): kept when it lasts
\* at least minSilence = 0.4 s
PushSegment(segments, buffer, startSample, endSample) ==
  IF (endSample - startSample) * 1000 >= 400 * buffer.sampleRate
  THEN Append(segments,
         [start |-> (startSample * 1000) \div buffer.sampleRate,
          duration |-> ((endSample - startSample) * 1000) \div buffer.sampleRate])
  ELSE segments

\* The scanning loop "for (let i = 0; i < length; i += step)".  The loop
\* opens a segment at a silent window that follows a non-silent one (or is
\* the first window) and closes it at the next non-silent window, or at
\* length when none follows (the trailing segment).
WindowStarts(buffer) ==
  {k * SilenceStep(buffer.sampleRate) :
     k \in 0..((BufferLength(buffer) - 1) \div SilenceStep(buffer.sampleRate))}

MinOf(S) == CHOOSE i \in S : \A j \in S : i <= j

RECURSIVE SegmentsFrom(_, _, _, _)
SegmentsFrom(buffer, silent, starts, segments) ==
  IF starts = {} THEN segments
  ELSE LET startSample == MinOf(starts)
           loud == {i \in DOMAIN silent : i > startSample /\ ~silent[i]}
           endSample == IF loud = {} THEN BufferLength(buffer) ELSE MinOf(loud)
       IN SegmentsFrom(buffer, silent, starts \ {startSample},
                       PushSegment(segments, buffer, startSample, endSample))

ScanSilence(buffer) ==
  LET step == SilenceStep(buffer.sampleRate)
      silent == [i \in WindowStarts(buffer) |-> WindowSilent(buffer, i)]
      starts == {i \in WindowStarts(buffer) :
                   silent[i] /\ (i = 0 \/ ~silent[i - step])}
  IN SegmentsFrom(buffer, silent, starts, <<>>)

\* a faulty variant: nothing is merged
MergeNothing(segments, merged) == segments

\* merge segments closer than 0.15 s by extending the earlier one
RECURSIVE MergeSegments(_, _)
MergeSegments(segments, merged) ==
  IF segments = <<>> THEN merged
  ELSE LET seg == Head(segments)
           n == Len(merged)
       IN IF n > 0 /\ seg.start <= merged[n].start + merged[n].duration + 150
          THEN LET newEnd == MathMax(merged[n].start + merged[n].duration,
                                     seg.start + seg.duration)
               IN MergeSegments(Tail(segments),
                    [merged EXCEPT ![n].duration = newEnd - merged[n].start])
          ELSE MergeSegments(Tail(segments), Append(merged, seg))

\* segments.sort((a, b) => a.start - b.start): a stable sort
RECURSIVE InsertByStart(_, _)
InsertByStart(sorted, x) ==
  IF sorted = <<>> THEN <<x>>
  ELSE IF Head(sorted).start <= x.start
       THEN <<Head(sorted)>> \o InsertByStart(Tail(sorted), x)
       ELSE <<x>> \o sorted
RECURSIVE SortByStart(_)
SortByStart(s) ==
  IF s = <<>> THEN <<>>
  ELSE InsertByStart(SortByStart(SubSeq(s, 1, Len(s) - 1)), s[Len(s)])

detectSilenceSegments(buffer) ==
  MergeSegments(SortByStart(ScanSilence(buffer)), <<>>)

(***************************************************************************)
(* Markup text: a sequence of tokens.                                      *)
(*   Word          a word                                                  *)
(*   TimeWord      a word that begins with "time="                         *)
(*   Break(m, u)   <break time="N u"/>, m = 1000 * N, u = "s" or "ms"      *)
(*   BareBreak     <break/> or <break>                                     *)
(*   OtherTag      any other tag                                           *)
(***************************************************************************)
Word == [k |-> "word", milli |-> 0, unit |-> ""]
TimeWord == [k |-> "timeword", milli |-> 0, unit |-> ""]
Break(m, u) == [k |-> "break", milli |-> m, unit |-> u]
BareBreak == [k |-> "bare", milli |-> 0, unit |-> ""]
OtherTag == [k |-> "tag", milli |-> 0, unit |-> ""]

\* text.replace(/<break\s*\/?>(?!\s*time=)/gi, '<break time="4.5s"/>')
NormalizeToken(text, i) ==
  IF text[i].k = "bare" /\ ~(i < Len(text) /\ text[i + 1].k = "timeword")
  THEN Break(4500, "s")
  ELSE text[i]
NormalizeText(text) == [i \in 1..Len(text) |-> NormalizeToken(text, i)]

\* the (?!) that ends breakPattern: a negative lookahead of the empty
\* pattern; the empty pattern matches everywhere, so (?!) matches nowhere
EmptyNegativeLookahead == FALSE

\* /<break\s+time=["'](\d+(?:\.\d+)?)(ms|s)["']\s*\/?>(?!)/gi at token i
BreakPatternMatches(tok) == tok.k = "break" /\ EmptyNegativeLookahead

\* [...normalizedText.matchAll(breakPattern)]: the matching indexes, in order
RECURSIVE MatchAllFrom(_, _)
MatchAllFrom(text, i) ==
  IF i > Len(text) THEN <<>>
  ELSE (IF BreakPatternMatches(text[i]) THEN <<i>> ELSE <<>>)
       \o MatchAllFrom(text, i + 1)
BreakMatches(normalizedText) == MatchAllFrom(normalizedText, 1)

\* breakUnit === 'ms' ? breakValue / 1000 : breakValue (in ms)
BreakDuration(tok) == IF tok.unit = "ms" THEN tok.milli \div 1000 ELSE tok.milli

ExpectedBreaks(normalizedText) ==
  LET m == BreakMatches(normalizedText)
  IN [i \in 1..Len(m) |-> BreakDuration(normalizedText[m[i]])]

\* words of text[from..to] after tags are replaced by a blank
RECURSIVE CountWords(_, _, _)
CountWords(text, from, to) ==
  IF from > to THEN 0
  ELSE (IF text[from].k \in {"word", "timeword"} THEN 1 ELSE 0)
       + CountWords(text, from + 1, to)

\* seg.duration >= Math.max(0.3, expected * 0.7)
LongEnough(seg, expected) == seg.duration * 10 >= MathMax(3000, expected * 7)

\* the inner loop: the unused, long enough segment of least
\* |seg.duration - expected|, the first one among equals; 0 when none
BestIndex(silenceSegments, used, expected) ==
  LET cands == {i \in 1..Len(silenceSegments) :
                  i \notin used /\ LongEnough(silenceSegments[i], expected)}
      score(i) == Abs(silenceSegments[i].duration - expected)
  IN IF cands = {} THEN 0
     ELSE CHOOSE i \in cands :
            \A j \in cands : score(i) < score(j) \/ (score(i) = score(j) /\ i <= j)

\* the outer loop over expectedBreaks
RECURSIVE AlignBreaks(_, _, _, _, _)
AlignBreaks(expectedBreaks, k, silenceSegments, used, timings) ==
  IF k > Len(expectedBreaks) THEN timings
  ELSE LET best == BestIndex(silenceSegments, used, expectedBreaks[k])
       IN IF best # 0
          THEN AlignBreaks(expectedBreaks, k + 1, silenceSegments, used \cup {best},
                 Append(timings, [position |-> silenceSegments[best].start,
                                  duration |-> expectedBreaks[k]]))
          ELSE AlignBreaks(expectedBreaks, k + 1, silenceSegments, used, timings)

\* timings.sort((a, b) => a.position - b.position): a stable sort
RECURSIVE InsertByPosition(_, _)
InsertByPosition(sorted, x) ==
  IF sorted = <<>> THEN <<x>>
  ELSE IF Head(sorted).position <= x.position
       THEN <<Head(sorted)>> \o InsertByPosition(Tail(sorted), x)
       ELSE <<x>> \o sorted
RECURSIVE SortByPosition(_)
SortByPosition(s) ==
  IF s = <<>> THEN <<>>
  ELSE InsertByPosition(SortByPosition(SubSeq(s, 1, Len(s) - 1)), s[Len(s)])

\* the speaking rate as words per ms: 2.5 words/s, or, with a speech buffer,
\* totalWords / max(0.1, duration - totalBreakTime)
WordsPerSecond(normalizedText, speechBuffer) ==
  LET totalWords == CountWords(normalizedText, 1, Len(normalizedText))
      totalBreakTime == SumSeq(ExpectedBreaks(normalizedText))
      actualSpeechDuration ==
        MathMax(100, BufferDuration(speechBuffer) - totalBreakTime)
  IN IF speechBuffer # NoBuffer /\ actualSpeechDuration > 0 /\ totalWords > 0
     THEN [words |-> totalWords, ms |-> actualSpeechDuration]
     ELSE [words |-> 5, ms |-> 2000]

\* the fallback loop over breakMatches (positions rounded down to a ms)
RECURSIVE EstimateBreaks(_, _, _, _, _, _, _)
EstimateBreaks(normalizedText, matches, k, rate, cumulativeTime, lastIndex, timings) ==
  IF k > Len(matches) THEN timings
  ELSE LET breakDuration == BreakDuration(normalizedText[matches[k]])
           wordsBefore == CountWords(normalizedText, lastIndex, matches[k] - 1)
           timeBeforeBreak == (wordsBefore * rate.ms) \div rate.words
       IN EstimateBreaks(normalizedText, matches, k + 1, rate,
            cumulativeTime + timeBeforeBreak + breakDuration, matches[k] + 1,
            Append(timings, [position |-> cumulativeTime + timeBeforeBreak,
                             duration |-> breakDuration]))

EstimatedTimings(normalizedText, speechBuffer) ==
  EstimateBreaks(normalizedText, BreakMatches(normalizedText), 1,
                 WordsPerSecond(normalizedText, speechBuffer), 0, 1, <<>>)

\* the alignment step: returned is TRUE when it returns its timings
AlignedTimings(normalizedText, speechBuffer) ==
  LET expectedBreaks == ExpectedBreaks(normalizedText)
      silenceSegments == detectSilenceSegments(speechBuffer)
      timings == AlignBreaks(expectedBreaks, 1, silenceSegments, {}, <<>>)
  IN IF speechBuffer # NoBuffer /\ Len(expectedBreaks) > 0 /\ Len(silenceSegments) > 0
        /\ Len(timings) = Len(expectedBreaks)
     THEN [returned |-> TRUE, timings |-> SortByPosition(timings)]
     ELSE [returned |-> FALSE, timings |-> <<>>]

\* a faulty variant: a text in which no tag is found gets one marker at the
\* start of the speech
parseBreakTimingsWithDefault(text, speechBuffer) ==
  LET estimated == EstimatedTimings(NormalizeText(text), speechBuffer)
  IN IF estimated = <<>> THEN << [position |-> 0, duration |-> 1000] >>
     ELSE estimated

parseBreakTimings(text, speechBuffer) ==
  LET normalizedText == NormalizeText(text)
      aligned == AlignedTimings(normalizedText, speechBuffer)
  IN IF aligned.returned THEN aligned.timings
     ELSE EstimatedTimings(normalizedText, speechBuffer)

(***************************************************************************)
(* addBreakSounds: the gain calls and the start of one break effect        *)
(***************************************************************************)
BreakStartTime(speechStartTime, breakTiming) == speechStartTime + breakTiming.position

\* Math.min(Math.max(0.25, breakTiming.duration), breakBuffer.duration)
BreakPlayDuration(breakTiming, breakBuffer) ==
  MathMin(MathMax(250, breakTiming.duration), BufferDuration(breakBuffer))

\* audibleGain = 0.3, rampStart = Math.max(0, breakStartTime - 0.01)
BreakGainCalls(speechStartTime, breakTiming, breakBuffer) ==
  << SetValueAtTime(0, 0),
     SetValueAtTime(3000, MathMax(0, BreakStartTime(speechStartTime, breakTiming) - 10)),
     LinearRampToValueAtTime(1,
       BreakStartTime(speechStartTime, breakTiming)
         + BreakPlayDuration(breakTiming, breakBuffer)) >>

(***************************************************************************)
(* AzureSpeechTTS.chunkText: a text is a sequence of characters            *)
(***************************************************************************)
\* MAX_CHUNK_LENGTH, 1000 characters in the source, scaled down so that
\* texts of a few characters are split
MAX_CHUNK_LENGTH == 4

\* [\.!?] and \s
IsTerminator(ch) == ch \in {".", "!", "?"}
IsWhitespace(ch) == ch = " "

\* the end of the longest run of characters from index from on that are
\* (terminator = TRUE) or are not (FALSE) sentence terminators; from - 1
\* when the run is empty
RECURSIVE RunEnd(_, _, _)
RunEnd(text, from, terminator) ==
  IF from > Len(text) \/ IsTerminator(text[from]) # terminator THEN from - 1
  ELSE RunEnd(text, from + 1, terminator)

\* text.match(/[^\.!?]+[\.!?]+/g) from index from on: each match is a
\* longest run of other characters and the longest run of terminators after
\* it; terminators before a match and a last run without terminator are
\* in no match
RECURSIVE MatchSentences(_, _)
MatchSentences(text, from) ==
  IF from > Len(text) THEN <<>>
  ELSE IF IsTerminator(text[from]) THEN MatchSentences(text, from + 1)
  ELSE LET body == RunEnd(text, from, FALSE)
           last == RunEnd(text, body + 1, TRUE)
       IN IF last = body THEN <<>>
          ELSE << SubSeq(text, from, last) >> \o MatchSentences(text, last + 1)

\* ... || [text]
Sentences(text) ==
  IF MatchSentences(text, 1) = <<>> THEN << text >> ELSE MatchSentences(text, 1)

\* String.prototype.trim
RECURSIVE Trim(_)
Trim(str) ==
  IF str = <<>> THEN <<>>
  ELSE IF IsWhitespace(Head(str)) THEN Trim(Tail(str))
  ELSE IF IsWhitespace(str[Len(str)]) THEN Trim(SubSeq(str, 1, Len(str) - 1))
  ELSE str

\* the loop over the sentences, and the push of the last chunk
RECURSIVE ChunkSentences(_, _, _)
ChunkSentences(sentences, currentChunk, chunks) ==
  IF sentences = <<>>
  THEN IF Len(Trim(currentChunk)) > 0 THEN Append(chunks, Trim(currentChunk))
       ELSE chunks
  ELSE IF Len(currentChunk) + Len(Head(sentences)) > MAX_CHUNK_LENGTH
          /\ Len(currentChunk) > 0
       THEN ChunkSentences(Tail(sentences), Head(sentences),
                           Append(chunks, Trim(currentChunk)))
       ELSE ChunkSentences(Tail(sentences), currentChunk \o Head(sentences), chunks)

\* text.slice(i, i + MAX_CHUNK_LENGTH) for i = 0, MAX_CHUNK_LENGTH, ...
chunkByLength(text) ==
  [n \in 1..CeilDiv(Len(text), MAX_CHUNK_LENGTH) |->
     SubSeq(text, (n - 1) * MAX_CHUNK_LENGTH + 1,
            MathMin(Len(text), n * MAX_CHUNK_LENGTH))]

chunkText(text) ==
  LET chunks == ChunkSentences(Sentences(text), <<>>, <<>>)
  IN IF Len(chunks) = 1 /\ Len(chunks[1]) > MAX_CHUNK_LENGTH
     THEN chunkByLength(text)
     ELSE chunks

(***************************************************************************)
(* AzureSpeechTTS.synthesizeChunkOnly / synthesizeChunk: the errors of one *)
(* attempt and the decision to retry. A message is a sequence of words.    *)
(***************************************************************************)
MAX_RETRIES == 3

\* no error
NoError == [name |-> "", message |-> <<>>]
Err(name, message) == [name |-> name, message |-> message]

\* controller.abort() after REQUEST_TIMEOUT makes fetch reject
AbortError == Err("AbortError", << "signal", "is", "aborted", "without", "reason" >>)
\* fetch rejects: no connection
NetworkError == Err("TypeError", << "Failed", "to", "fetch" >>)
\* new Error(`Azure TTS request failed: ${response.status} ${response.statusText}`)
HttpError(status, statusText) ==
  Err("Error", << "Azure", "TTS", "request", "failed:", status >> \o statusText)
\* response.json() rejects
JsonError == Err("SyntaxError", << "Unexpected", "end", "of", "JSON", "input" >>)
\* new Error(data.error)
PayloadError(text) == Err("Error", text)
\* new Error('Audio loading failed')
AudioLoadingFailed == Err("Error", << "Audio", "loading", "failed" >>)

\* error.message.includes(word), for a whole word of the message
MessageIncludes(message, word) == \E i \in 1..Len(message) : message[i] = word

\* error instanceof Error && (error.name === 'AbortError' ||
\* error.message.includes('timeout'))
Retryable(error) ==
  error.name = "AbortError" \/ MessageIncludes(error.message, "timeout")

\* a faulty variant: the same wait before every retry
RetryDelayFlat(retryCount) == 1000

\* setTimeout(resolve, 1000 * (retryCount + 1))
RetryDelay(retryCount) == 1000 * (retryCount + 1)

\* the catch block: wait and retry, or reject with the error
Catch(s, error) ==
  IF s.retryCount < MAX_RETRIES /\ Retryable(error)
  THEN [s EXCEPT !.pc = "backoff", !.error = error,
                 !.delay = RetryDelay(s.retryCount)]
  ELSE [s EXCEPT !.pc = "rejected", !.error = error, !.settled = @ + 1]

(***************************************************************************)
(* The mixer instance and the calls in flight on it                        *)
(***************************************************************************)
VARIABLES
  introBuffer, outroBuffer, breakSoundBuffer, musicBuffer,     \* decoded buffers
  introArrayBuffer, outroArrayBuffer, breakSoundArrayBuffer,   \* raw bytes
  isInitialized, isMixing,
  musicSource, musicGain, speechAudio,                         \* live playback
  calls,      \* the mixWithSpeech / playMixedSequence calls, by slot
  load,       \* the loadIntroOutroFiles call in flight
  parse,      \* a direct application of parseBreakTimings
  encoded,    \* a direct application of audioBufferToBlob
  detected,   \* a direct application of detectSilenceSegments
  chunked,    \* a direct application of chunkText
  synth       \* a synthesizeChunkOnly / synthesizeChunk call

mixerVars == << introBuffer, outroBuffer, breakSoundBuffer, musicBuffer,
                introArrayBuffer, outroArrayBuffer, breakSoundArrayBuffer,
                isInitialized, isMixing >>
playVars == << musicSource, musicGain, speechAudio >>
ttsVars == << chunked, synth >>
pureVars == << parse, encoded, detected, ttsVars >>
vars == << mixerVars, playVars, calls, load, pureVars >>

\* a null ArrayBuffer field
NullBytes == << -1 >>

\* the numbers of calls that may be in flight at once
MaxCalls == 2
Slots == 1..MaxCalls

\* audioContext.sampleRate (frames per second)
ContextSampleRate == 100

NoConfig == MusicConfig(FALSE, 0, 0, 0, 0, FALSE, 0, 0, 0, FALSE)
NoTiming == Timing(NoConfig, 0, FALSE)
NoResult == [kind |-> "none", mixedBlob |-> Blob("", <<>>), length |-> 0]

IdleCall ==
  [op |-> "none", pc |-> "idle", config |-> NoConfig, speechAudioData |-> <<>>,
   originalText |-> <<>>, speechDuration |-> 0, totalDuration |-> 0,
   length |-> 0, pending |-> NullBytes,
   introBufferToUse |-> NoBuffer, outroBufferToUse |-> NoBuffer,
   timing |-> NoTiming,
   musicIntroGain |-> <<>>, speechGain |-> <<>>, musicOutroGain |-> <<>>,
   breakGains |-> <<>>, breakTimings |-> <<>>, caught |-> 0,
   rendered |-> FALSE, error |-> "", result |-> NoResult]

\* the promise of the call rejects with this error
Reject(r, error) == [r EXCEPT !.pc = "rejected", !.error = error]

\* a faulty variant: the speech last decoded is kept in the mixer, and a call
\* takes the buffer another call has left there
SpeechBufferShared(r) ==
  LET others == {d \in DOMAIN calls :
                   calls[d].op = "mixWithSpeech" /\ calls[d].pc # "idle"
                     /\ calls[d].speechAudioData # r.speechAudioData
                     /\ ~DecodeFails(Atob(calls[d].speechAudioData))}
  IN IF others = {}
     THEN decodeAudioData(Atob(r.speechAudioData), ContextSampleRate)
     ELSE decodeAudioData(Atob(calls[CHOOSE d \in others : TRUE].speechAudioData),
                          ContextSampleRate)

SpeechBufferOf(r) == decodeAudioData(Atob(r.speechAudioData), ContextSampleRate)

\* a faulty variant: the speech decoded and encoded again as WAV
ReencodedSpeechUrl(speechAudioData) ==
  [kind |-> "speechOnly",
   mixedBlob |-> audioBufferToBlob(
                   decodeAudioData(Atob(speechAudioData), ContextSampleRate)),
   length |-> 0]

\* createSpeechOnlyUrl: the speech blob itself
createSpeechOnlyUrl(speechAudioData) ==
  [kind |-> "speechOnly", mixedBlob |-> base64ToBlob(speechAudioData), length |-> 0]

\* the result of a finished render: audioBufferToBlob(renderedBuffer); the
\* rendered buffer is stereo, of the context's length and rate; its sample
\* data is the renderer's output and is not carried, only the header is
MixedResult(r) ==
  [kind |-> "mixed",
   mixedBlob |-> Blob("audio/wav", WavHeader(2, ContextSampleRate, r.length)),
   length |-> r.length]

\* The synchronous stretches of mixWithSpeech / createMixedAudioWithOutro.
\* Each takes the call where the previous one left it (pc) and leaves it at
\* an await ("decode...", "rendering"), at the next stretch, or rejected.

\* mixWithSpeech after the speech is decoded: the duration, the offline
\* context (its constructor throws unless the length is positive) and
\* createMixedAudioWithOutro up to its decoding of the speech
SpeechDecoded(r) ==
  IF DecodeFails(Atob(r.speechAudioData)) THEN Reject(r, "DecodeError")
  ELSE LET speechDuration == BufferDuration(SpeechBufferOf(r))
           totalDuration == TotalDuration(r.config, speechDuration)
           length == RenderLength(totalDuration, ContextSampleRate)
           s == [r EXCEPT !.speechDuration = speechDuration,
                          !.totalDuration = totalDuration, !.length = length]
       IN IF length <= 0 THEN Reject(s, "NotSupportedError")
          ELSE [s EXCEPT !.pc = "decodeSpeechBuffer"]

\* the offline context has decoded the speech (the bytes the realtime
\* context has just decoded)
SpeechBufferDecoded(r) == [r EXCEPT !.pc = "resolveIntro"]

\* the intro buffer: decoded from the raw bytes, or copied from introBuffer,
\* or from musicBuffer, or the error 'Intro audio buffer not loaded'
ResolveIntro(r) ==
  IF introArrayBuffer # NullBytes
  THEN [r EXCEPT !.pc = "decodeIntro", !.pending = introArrayBuffer]
  ELSE IF introBuffer # NoBuffer
  THEN [r EXCEPT !.pc = "resolveOutro", !.introBufferToUse = introBuffer]
  ELSE IF musicBuffer # NoBuffer
  THEN [r EXCEPT !.pc = "resolveOutro", !.introBufferToUse = musicBuffer]
  ELSE Reject(r, "Intro audio buffer not loaded")

\* a faulty variant: a failed decode of the intro is ignored and the mix
\* goes on without an intro buffer
IntroDecodeIgnored(r) ==
  [r EXCEPT !.pc = "resolveOutro",
            !.introBufferToUse =
               IF DecodeFails(r.pending) THEN NoBuffer
               ELSE decodeAudioData(r.pending, ContextSampleRate)]

\* the awaited decode of the intro bytes settles
IntroDecoded(r) ==
  IF DecodeFails(r.pending) THEN Reject(r, "DecodeError")
  ELSE [r EXCEPT !.pc = "resolveOutro",
                 !.introBufferToUse = decodeAudioData(r.pending, ContextSampleRate)]

\* the outro buffer: decoded from the raw bytes, or copied from outroBuffer,
\* or from musicBuffer, or none
ResolveOutro(r) ==
  IF ~r.config.outroEnabled THEN [r EXCEPT !.pc = "schedule"]
  ELSE IF outroArrayBuffer # NullBytes
  THEN [r EXCEPT !.pc = "decodeOutro", !.pending = outroArrayBuffer]
  ELSE IF outroBuffer # NoBuffer
  THEN [r EXCEPT !.pc = "schedule", !.outroBufferToUse = outroBuffer]
  ELSE IF musicBuffer # NoBuffer
  THEN [r EXCEPT !.pc = "schedule", !.outroBufferToUse = musicBuffer]
  ELSE [r EXCEPT !.pc = "schedule"]

\* the awaited decode of the outro bytes settles
OutroDecoded(r) ==
  IF DecodeFails(r.pending) THEN Reject(r, "DecodeError")
  ELSE [r EXCEPT !.pc = "schedule",
                 !.outroBufferToUse = decodeAudioData(r.pending, ContextSampleRate)]

\* createMixedAudioWithOutro from "Calculate timing" to the render
Schedule(r) ==
  LET outroScheduled == r.config.outroEnabled /\ r.outroBufferToUse # NoBuffer
      timing == Timing(r.config, r.speechDuration, outroScheduled)
      intro == MusicIntroGainCalls(r.config)
      speech == SpeechGainCalls(r.config)
      outro == MusicOutroGainCalls(r.config, r.speechDuration, outroScheduled)
      \* musicOutroSource.start, musicIntroSource.start, speechSource.start
      starts == (IF outroScheduled
                 THEN << [op |-> "start", value |-> 0, time |-> timing.outroFadeInStart] >>
                 ELSE << >>)
                \o << [op |-> "start", value |-> 0, time |-> 0],
                      [op |-> "start", value |-> 0, time |-> timing.speechStartTime] >>
  IN IF ThrowsRangeError(intro \o speech \o outro \o starts)
     THEN Reject([r EXCEPT !.timing = timing], "RangeError")
     ELSE [r EXCEPT !.timing = timing, !.musicIntroGain = intro,
                    !.speechGain = speech, !.musicOutroGain = outro,
                    !.pc = IF r.config.breakSoundEnabled
                              /\ breakSoundArrayBuffer # NullBytes
                              /\ r.originalText # <<>>
                           THEN "addBreakSounds" ELSE "rendering"]

\* addBreakSounds up to its await
AddBreakSounds(r) ==
  LET breakTimings == parseBreakTimings(r.originalText, SpeechBufferOf(r))
  IN IF breakSoundArrayBuffer = NullBytes THEN [r EXCEPT !.pc = "rendering"]
     ELSE IF Len(breakTimings) = 0 THEN [r EXCEPT !.pc = "rendering"]
     ELSE [r EXCEPT !.pc = "decodeBreak", !.breakTimings = breakTimings,
                    !.pending = breakSoundArrayBuffer]

\* breakSource.start(breakStartTime, 0, breakPlayDuration) throws a
\* RangeError for a negative time or a negative duration
BreakStartThrows(speechStartTime, breakTiming, breakBuffer) ==
  \/ BreakStartTime(speechStartTime, breakTiming) < 0
  \/ BreakPlayDuration(breakTiming, breakBuffer) < 0

\* addBreakSounds after its await: one gain and one source per break; an
\* exception of breakSource.start is caught and logged
ScheduleBreaks(r) ==
  IF DecodeFails(r.pending) THEN Reject(r, "DecodeError")
  ELSE LET breakBuffer == decodeAudioData(r.pending, ContextSampleRate)
           gains == [i \in 1..Len(r.breakTimings) |->
                       BreakGainCalls(r.timing.speechStartTime, r.breakTimings[i],
                                      breakBuffer)]
           caught == Cardinality({i \in 1..Len(r.breakTimings) :
                       BreakStartThrows(r.timing.speechStartTime, r.breakTimings[i],
                                        breakBuffer)})
       IN IF \E i \in 1..Len(gains) : ThrowsRangeError(gains[i])
          THEN Reject(r, "RangeError")
          ELSE [r EXCEPT !.pc = "rendering", !.breakGains = gains,
                         !.caught = caught]

\* the call runs from a settled await to its next await
RunToAwait(r) ==
  LET a == IF r.pc = "resolveIntro" THEN ResolveIntro(r) ELSE r
      b == IF a.pc = "resolveOutro" THEN ResolveOutro(a) ELSE a
      c == IF b.pc = "schedule" THEN Schedule(b) ELSE b
  IN IF c.pc = "addBreakSounds" THEN AddBreakSounds(c) ELSE c

\* a faulty variant: only a disabled configuration bypasses the mix
BypassOnlyWhenDisabled(config) == ~config.enabled

\* the guard of mixWithSpeech
BypassMix(config) ==
  ~config.enabled \/ (introBuffer = NoBuffer /\ musicBuffer = NoBuffer)

(***************************************************************************)
(* Inputs                                                                  *)
(***************************************************************************)
\* encoded audio files: an intro of 3.75 s, an outro of 3.75 s, a countdown
\* sound of 1 s, and a file that is no audio
IntroFile == <<255, 252>>
OutroFile == <<255, 251>>
BreakSoundFile == <<255, 74>>
CorruptFile == <<0, 0>>

\* synthesized speech, as base64: 10 s of speech; 1 s of speech, 1 s of
\* silence and 0.5 s of speech; no frame at all; bytes that are no audio
Speech10s == Btoa(<<255, 172, 172, 172, 172, 8>>)
SpeechWithPause == Btoa(<<255, 76, 72, 44, 8, 8>>)
SpeechEmpty == Btoa(<<255, 8, 8>>)
\* speech with a pause of 2 s and a pause of 1 s; with two pauses of 1 s
SpeechTwoPauses == Btoa(<<255, 76, 136, 44, 72, 44>>)
SpeechEqualPauses == Btoa(<<255, 76, 72, 44, 72, 44>>)
SpeechCorrupt == Btoa(<<0, 76, 72>>)

\* 'Hello <break time="2s"/> world'
HelloBreakWorld == << Word, Break(2000, "s"), Word >>

DisabledConfig ==
  MusicConfig(FALSE, 22000, 7000, 6000, 8000, TRUE, 10000, 15000, 5000, TRUE)

\* the inputs of the calls on the mixer
MixConfigs == {ExampleConfig, DisabledConfig}
MixSpeech == {SpeechWithPause, SpeechCorrupt}
MixTexts == {HelloBreakWorld}

(***************************************************************************)
(* Init: a mixer just constructed                                          *)
(***************************************************************************)
IdleLoad == [pc |-> "idle", intro |-> NullBytes, outro |-> NullBytes,
             breakSound |-> NullBytes]
IdleParse == [done |-> FALSE, text |-> <<>>, speechBuffer |-> NoBuffer,
              timings |-> <<>>]
IdleEncoded == [done |-> FALSE, buffer |-> NoBuffer, blob |-> Blob("", <<>>)]
IdleDetected == [done |-> FALSE, buffer |-> NoBuffer, segments |-> <<>>]
IdleChunked == [done |-> FALSE, text |-> <<>>, chunks |-> <<>>]
IdleSynth ==
  [pc |-> "idle", op |-> "none", text |-> <<>>, retryCount |-> 0, requests |-> 0,
   delay |-> 0, settled |-> 0, error |-> NoError, audioData |-> <<>>]

Init ==
  /\ introBuffer = NoBuffer /\ outroBuffer = NoBuffer
  /\ breakSoundBuffer = NoBuffer /\ musicBuffer = NoBuffer
  /\ introArrayBuffer = NullBytes /\ outroArrayBuffer = NullBytes
  /\ breakSoundArrayBuffer = NullBytes
  /\ isInitialized = FALSE /\ isMixing = FALSE
  /\ musicSource = Null /\ musicGain = Null /\ speechAudio = Null
  /\ calls = [c \in Slots |-> IdleCall]
  /\ load = IdleLoad
  /\ parse = IdleParse /\ encoded = IdleEncoded /\ detected = IdleDetected
  /\ chunked = IdleChunked /\ synth = IdleSynth

(***************************************************************************)
(* loadMusicFile, loadIntroOutroFiles                                      *)
(***************************************************************************)
\* loadMusicFile of a file that decodes; a failure changes nothing
LoadMusicFile ==
  /\ musicBuffer = NoBuffer
  /\ musicBuffer' = decodeAudioData(IntroFile, ContextSampleRate)
  /\ isInitialized' = TRUE
  /\ UNCHANGED << introBuffer, outroBuffer, breakSoundBuffer, introArrayBuffer,
                  outroArrayBuffer, breakSoundArrayBuffer, isMixing, playVars,
                  calls, load, pureVars >>

\* loadIntroOutroFiles up to the first await (the fetches)
LoadIntroOutroFiles(intro, outro, breakSound) ==
  /\ load.pc = "idle"
  /\ isInitialized' = TRUE
  /\ load' = [pc |-> "fetching", intro |-> intro, outro |-> outro,
              breakSound |-> breakSound]
  /\ UNCHANGED << introBuffer, outroBuffer, breakSoundBuffer, musicBuffer,
                  introArrayBuffer, outroArrayBuffer, breakSoundArrayBuffer,
                  isMixing, playVars, calls, pureVars >>

\* a fetch rejects or a response is not ok: the error is rethrown
LoadFetchFails ==
  /\ load.pc = "fetching"
  /\ load' = IdleLoad
  /\ UNCHANGED << mixerVars, playVars, calls, pureVars >>

\* the responses and their bytes arrive: the raw bytes are saved and the
\* decoding starts
LoadFetched ==
  /\ load.pc = "fetching"
  /\ introArrayBuffer' = load.intro
  /\ outroArrayBuffer' = load.outro
  /\ breakSoundArrayBuffer' =
       IF load.breakSound # NullBytes THEN load.breakSound ELSE breakSoundArrayBuffer
  /\ load' = [load EXCEPT !.pc = "decoding"]
  /\ UNCHANGED << introBuffer, outroBuffer, breakSoundBuffer, musicBuffer,
                  isInitialized, isMixing, playVars, calls, pureVars >>

\* Promise.all of the decodes settles: all decoded, or the error of the
\* first file that does not decode is rethrown
LoadDecoded ==
  /\ load.pc = "decoding"
  /\ LET failed == DecodeFails(load.intro) \/ DecodeFails(load.outro)
                   \/ (load.breakSound # NullBytes /\ DecodeFails(load.breakSound))
     IN /\ introBuffer' = IF failed THEN introBuffer
                          ELSE decodeAudioData(load.intro, ContextSampleRate)
        /\ outroBuffer' = IF failed THEN outroBuffer
                          ELSE decodeAudioData(load.outro, ContextSampleRate)
        /\ breakSoundBuffer' =
             IF failed \/ load.breakSound = NullBytes THEN breakSoundBuffer
             ELSE decodeAudioData(load.breakSound, ContextSampleRate)
  /\ load' = IdleLoad
  /\ UNCHANGED << musicBuffer, introArrayBuffer, outroArrayBuffer,
                  breakSoundArrayBuffer, isInitialized, isMixing, playVars,
                  calls, pureVars >>

(***************************************************************************)
(* mixWithSpeech                                                           *)
(***************************************************************************)
\* mixWithSpeech up to its first await: the speech-only result, or the
\* start of the decoding of the speech
MixWithSpeech(c, config, speechAudioData, originalText) ==
  /\ calls[c].pc = "idle"
  /\ LET r == [IdleCall EXCEPT !.op = "mixWithSpeech", !.config = config,
                               !.speechAudioData = speechAudioData,
                               !.originalText = originalText]
     IN IF BypassMix(config)
        THEN /\ calls' = [calls EXCEPT ![c] =
                  [r EXCEPT !.pc = "resolved",
                            !.result = createSpeechOnlyUrl(speechAudioData)]]
             /\ UNCHANGED isInitialized
        ELSE /\ calls' = [calls EXCEPT ![c] = [r EXCEPT !.pc = "decodeSpeech"]]
             /\ isInitialized' = TRUE
  /\ UNCHANGED << introBuffer, outroBuffer, breakSoundBuffer, musicBuffer,
                  introArrayBuffer, outroArrayBuffer, breakSoundArrayBuffer,
                  isMixing, playVars, load, pureVars >>

\* an awaited decodeAudioData settles and the call runs on to its next await
DecodeSettles(c) ==
  /\ calls[c].pc \in {"decodeSpeech", "decodeSpeechBuffer", "decodeIntro",
                      "decodeOutro", "decodeBreak"}
  /\ LET r == calls[c]
         settled ==
           CASE r.pc = "decodeSpeech" -> SpeechDecoded(r)
             [] r.pc = "decodeSpeechBuffer" -> SpeechBufferDecoded(r)
             [] r.pc = "decodeIntro" -> IntroDecoded(r)
             [] r.pc = "decodeOutro" -> OutroDecoded(r)
             [] OTHER -> ScheduleBreaks(r)
     IN calls' = [calls EXCEPT ![c] = RunToAwait(settled)]
  /\ UNCHANGED << mixerVars, playVars, load, pureVars >>

\* offlineContext.startRendering resolves: the blob and its URL are returned
RenderSucceeds(c) ==
  /\ calls[c].pc = "rendering"
  /\ calls' = [calls EXCEPT ![c] =
       [calls[c] EXCEPT !.pc = "resolved", !.rendered = TRUE,
                        !.result = MixedResult(calls[c])]]
  /\ UNCHANGED << mixerVars, playVars, load, pureVars >>

\* a faulty variant: what was rendered so far is returned as the mix
PartialOutput(r) == [r EXCEPT !.pc = "resolved", !.result = MixedResult(r)]

\* The handler of a rendering failure: "throw new Error('Failed to create
\* mixed audio')"
RenderFailure(r) == Reject(r, "Failed to create mixed audio")

\* offlineContext.startRendering rejects
RenderFails(c) ==
  /\ calls[c].pc = "rendering"
  /\ calls' = [calls EXCEPT ![c] = RenderFailure(calls[c])]
  /\ UNCHANGED << mixerVars, playVars, load, pureVars >>

\* the caller has taken the result or the error of a settled call
Release(c) ==
  /\ calls[c].pc \in {"resolved", "rejected"}
  /\ calls' = [calls EXCEPT ![c] = IdleCall]
  /\ UNCHANGED << mixerVars, playVars, load, pureVars >>

(***************************************************************************)
(* playMixedSequence, startFadeAndSpeech, playSpeechOnly, stop             *)
(***************************************************************************)
\* playMixedSequence: speech only, or the music starts and a timer is set
PlayMixedSequence(c, config, speechAudioData) ==
  /\ calls[c].pc = "idle"
  /\ IF ~config.enabled \/ musicBuffer = NoBuffer
     THEN /\ speechAudio' = "playing"
          /\ UNCHANGED << isMixing, isInitialized, musicSource, musicGain, calls >>
     ELSE /\ isMixing' = TRUE
          /\ isInitialized' = TRUE
          /\ musicSource' = "started"
          /\ musicGain' = "created"
          /\ calls' = [calls EXCEPT ![c] =
               [IdleCall EXCEPT !.op = "playMixedSequence", !.pc = "intro",
                                !.config = config,
                                !.speechAudioData = speechAudioData]]
          /\ UNCHANGED speechAudio
  /\ UNCHANGED << introBuffer, outroBuffer, breakSoundBuffer, musicBuffer,
                  introArrayBuffer, outroArrayBuffer, breakSoundArrayBuffer,
                  load, pureVars >>

\* the timer of playMixedSequence fires: startFadeAndSpeech schedules the
\* fade and sets the speech timer and the music-end timer
StartFadeAndSpeech(c) ==
  /\ calls[c].pc = "intro"
  /\ calls' = [calls EXCEPT ![c] =
       IF musicGain = Null \/ ~isInitialized THEN IdleCall
       ELSE [calls[c] EXCEPT !.pc = "fading"]]
  /\ UNCHANGED << mixerVars, playVars, load, pureVars >>

\* the speech timer fires: playSpeechOnly, then onSpeechStart
SpeechTimerFires(c) ==
  /\ calls[c].pc = "fading"
  /\ speechAudio' = "playing"
  /\ calls' = [calls EXCEPT ![c].pc = "speechStarted"]
  /\ UNCHANGED << mixerVars, musicSource, musicGain, load, pureVars >>

\* the music-end timer fires (after the speech timer, whose delay is half
\* of its own): stopMusic, then onMusicEnd
MusicEndTimerFires(c) ==
  /\ calls[c].pc = "speechStarted"
  /\ musicSource' = Null
  /\ calls' = [calls EXCEPT ![c] = IdleCall]
  /\ UNCHANGED << mixerVars, musicGain, speechAudio, load, pureVars >>

\* the speech element ends: onMixComplete
SpeechEnded ==
  /\ speechAudio = "playing"
  /\ speechAudio' = "ended"
  /\ UNCHANGED << mixerVars, musicSource, musicGain, calls, load, pureVars >>

\* stop: stopMusic, stopSpeech, isMixing = false
Stop ==
  /\ musicSource' = Null
  /\ speechAudio' = Null
  /\ isMixing' = FALSE
  /\ UNCHANGED << introBuffer, outroBuffer, breakSoundBuffer, musicBuffer,
                  introArrayBuffer, outroArrayBuffer, breakSoundArrayBuffer,
                  isInitialized, musicGain, calls, load, pureVars >>

\* the loading of the assets and the offline mixes
Next ==
  \/ LoadMusicFile
  \/ \E intro \in {IntroFile, CorruptFile}, breakSound \in {NullBytes, BreakSoundFile} :
       LoadIntroOutroFiles(intro, OutroFile, breakSound)
  \/ LoadFetchFails
  \/ LoadFetched
  \/ LoadDecoded
  \/ \E c \in Slots, config \in MixConfigs, speech \in MixSpeech, text \in MixTexts :
       MixWithSpeech(c, config, speech, text)
  \/ \E c \in Slots : DecodeSettles(c)
  \/ \E c \in Slots : RenderSucceeds(c)
  \/ \E c \in Slots : RenderFails(c)
  \/ \E c \in Slots : Release(c)

\* the live playback
NextPlay ==
  \/ LoadMusicFile
  \/ \E c \in Slots, speech \in MixSpeech : PlayMixedSequence(c, ExampleConfig, speech)
  \/ \E c \in Slots : StartFadeAndSpeech(c)
  \/ \E c \in Slots : SpeechTimerFires(c)
  \/ \E c \in Slots : MusicEndTimerFires(c)
  \/ SpeechEnded
  \/ Stop

Spec == Init /\ [][Next]_vars

SpecPlay == Init /\ [][NextPlay]_vars

(***************************************************************************)
(* The timeline and the gain scheduling over many configurations: one mix  *)
(* at a time on a mixer whose intro, outro and break sound are loaded.     *)
(***************************************************************************)
\* the mixer after loadIntroOutroFiles(intro, outro, breakSound) has resolved
InitLoaded ==
  /\ introBuffer = decodeAudioData(IntroFile, ContextSampleRate)
  /\ outroBuffer = decodeAudioData(OutroFile, ContextSampleRate)
  /\ breakSoundBuffer = decodeAudioData(BreakSoundFile, ContextSampleRate)
  /\ musicBuffer = NoBuffer
  /\ introArrayBuffer = IntroFile /\ outroArrayBuffer = OutroFile
  /\ breakSoundArrayBuffer = BreakSoundFile
  /\ isInitialized = TRUE /\ isMixing = FALSE
  /\ musicSource = Null /\ musicGain = Null /\ speechAudio = Null
  /\ calls = [c \in Slots |-> IdleCall]
  /\ load = IdleLoad
  /\ parse = IdleParse /\ encoded = IdleEncoded /\ detected = IdleDetected
  /\ chunked = IdleChunked /\ synth = IdleSynth

\* configurations: the example, and zero, short, long and negative durations
TimelineConfigs ==
  { MusicConfig(TRUE, intro, fade, mvol, 8000, oen, ofin, odur, ofout, TRUE) :
      intro \in {-2000, 0, 22000}, fade \in {0, 7000}, mvol \in {6000, 10000},
      oen \in BOOLEAN, ofin \in {0, 10000, 60000}, odur \in {2000, 15000},
      ofout \in {0, 5000} }
  \cup {ExponentialConfig, [ExampleConfig EXCEPT !.introDuration = 22003]}
TimelineSpeech == {Speech10s, SpeechEmpty}

NextTimeline ==
  \/ \E config \in TimelineConfigs, speech \in TimelineSpeech :
       MixWithSpeech(1, config, speech, HelloBreakWorld)
  \/ DecodeSettles(1)
  \/ RenderSucceeds(1)
  \/ RenderFails(1)
  \/ Release(1)

SpecTimeline == InitLoaded /\ [][NextTimeline]_vars

(***************************************************************************)
(* parseBreakTimings applied to texts and speech buffers                   *)
(***************************************************************************)
\* the longest text, in tokens
MaxTextLen == 3

ParseTokens ==
  {Word, TimeWord, Break(1000, "s"), Break(2000, "s"), Break(500000, "ms"), BareBreak}
RECURSIVE TextsOfLen(_)
TextsOfLen(n) ==
  IF n = 0 THEN {<<>>}
  ELSE {Append(t, tok) : t \in TextsOfLen(n - 1), tok \in ParseTokens}
ParseTexts == UNION {TextsOfLen(n) : n \in 0..MaxTextLen}

\* no speech buffer, the speech with a pause of 1 s, 10 s of speech, the
\* speeches with two pauses
ParseBuffers ==
  {NoBuffer, decodeAudioData(Atob(SpeechWithPause), ContextSampleRate),
   decodeAudioData(Atob(Speech10s), ContextSampleRate),
   decodeAudioData(Atob(SpeechTwoPauses), ContextSampleRate),
   decodeAudioData(Atob(SpeechEqualPauses), ContextSampleRate)}

\* one application of parseBreakTimings, kept with its result
ParseBreakTimings(text, speechBuffer) ==
  /\ ~parse.done
  /\ parse' = [done |-> TRUE, text |-> text, speechBuffer |-> speechBuffer,
               timings |-> parseBreakTimings(text, speechBuffer)]
  /\ UNCHANGED << mixerVars, playVars, calls, load, encoded, detected, ttsVars >>

NextParse ==
  \E text \in ParseTexts, speechBuffer \in ParseBuffers :
    ParseBreakTimings(text, speechBuffer)

SpecParse == Init /\ [][NextParse]_vars

(***************************************************************************)
(* Runs: calls of mixWithSpeech, one after another or overlapping, on a    *)
(* mixer whose intro, outro and break sound are loaded.                    *)
(***************************************************************************)
NoOutroConfig ==
  MusicConfig(TRUE, 22000, 7000, 6000, 8000, FALSE, 10000, 15000, 5000, TRUE)
PlainText == << Word, Word >>

RunConfigs == {ExampleConfig, NoOutroConfig, DisabledConfig}
RunSpeech == {Speech10s, SpeechWithPause, SpeechCorrupt}
RunTexts == {HelloBreakWorld, PlainText}

NextRuns ==
  \/ \E c \in Slots, config \in RunConfigs, speech \in RunSpeech, text \in RunTexts :
       MixWithSpeech(c, config, speech, text)
  \/ \E c \in Slots : DecodeSettles(c)
  \/ \E c \in Slots : RenderSucceeds(c)
  \/ \E c \in Slots : RenderFails(c)
  \/ \E c \in Slots : Release(c)

SpecRuns == InitLoaded /\ [][NextRuns]_vars

(***************************************************************************)
(* detectSilenceSegments applied to buffers                                *)
(***************************************************************************)
\* sound, silence, sound: the amplitude of the sound (a faint one below the
\* threshold, one just above it, half and full scale, of either sign: the
\* detection takes magnitudes, so a tone is a run of its mean magnitude),
\* and the lengths of the parts in ms; a blip is a short sound that divides
\* the silence in two silences of the same length
DetectRates == {8000, 44100}
DetectAmplitudes == {655, 1049, 32768, -32768, 65536}
DetectShapes ==
  [lead : {0, 1000}, pause : {300, 500, 1000}, blip : {0, 50, 200},
   tail : {0, 200, 1000}]

\* a run of ms milliseconds at a rate (none when ms = 0)
RunOfMs(sampleRate, ms, amp) ==
  IF ms = 0 THEN <<>> ELSE << Run((sampleRate * ms) \div 1000, amp) >>

SoundPauseSound(sampleRate, channels, amp, shape) ==
  LET sound == [ch \in 1..channels |-> amp]
      zeros == [ch \in 1..channels |-> 0]
  IN AudioBuffer(sampleRate, channels,
       RunOfMs(sampleRate, shape.lead, sound)
         \o RunOfMs(sampleRate, shape.pause, zeros)
         \o (IF shape.blip = 0 THEN <<>>
             ELSE RunOfMs(sampleRate, shape.blip, sound)
                    \o RunOfMs(sampleRate, shape.pause, zeros))
         \o RunOfMs(sampleRate, shape.tail, sound))

\* one application of detectSilenceSegments, kept with its result
DetectSilenceSegments ==
  /\ ~detected.done
  /\ \E sampleRate \in DetectRates, channels \in 1..2, amp \in DetectAmplitudes,
        shape \in DetectShapes :
       LET buffer == SoundPauseSound(sampleRate, channels, amp, shape)
       IN detected' = [done |-> TRUE, buffer |-> buffer,
                       segments |-> detectSilenceSegments(buffer)]
  /\ UNCHANGED << mixerVars, playVars, calls, load, parse, encoded, ttsVars >>

NextDetect == DetectSilenceSegments

SpecDetect == Init /\ [][NextDetect]_vars

(***************************************************************************)
(* audioBufferToBlob applied to buffers                                    *)
(***************************************************************************)
\* the most frames of an encoded buffer
MaxFrames == 2

\* samples: -1, just below -0.5, just below 1, 1, and the sums -1.5 and 1.5
\* of two tracks
EncodeSamples == {-98304, -65536, -32769, 65535, 65536, 98304}
EncodeRates == {8000, 44100}

\* a buffer of one-frame runs, one sample per channel in each
FramesBuffer(sampleRate, channels, frames) ==
  AudioBuffer(sampleRate, channels, [i \in DOMAIN frames |-> Run(1, frames[i])])

\* one application of audioBufferToBlob, kept with its result
AudioBufferToBlob ==
  /\ ~encoded.done
  /\ \E sampleRate \in EncodeRates, channels \in 1..2, length \in 1..MaxFrames :
       \E frames \in [1..length -> [1..channels -> EncodeSamples]] :
         LET buffer == FramesBuffer(sampleRate, channels, frames)
         IN encoded' = [done |-> TRUE, buffer |-> buffer,
                        blob |-> audioBufferToBlob(buffer)]
  /\ UNCHANGED << mixerVars, playVars, calls, load, parse, detected, ttsVars >>

NextEncode == AudioBufferToBlob

SpecEncode == Init /\ [][NextEncode]_vars

(***************************************************************************)
(* chunkText applied to texts                                              *)
(***************************************************************************)
\* the most characters of a chunked text
MaxChars == 5

\* letters, a blank and sentence terminators
Chars == {"a", "b", " ", ".", "?"}
ChunkTexts == UNION {[1..n -> Chars] : n \in 0..MaxChars}

\* one application of chunkText, kept with its result
ChunkText ==
  /\ ~chunked.done
  /\ \E text \in ChunkTexts :
       chunked' = [done |-> TRUE, text |-> text, chunks |-> chunkText(text)]
  /\ UNCHANGED << mixerVars, playVars, calls, load, parse, encoded, detected, synth >>

NextChunk == ChunkText

SpecChunk == Init /\ [][NextChunk]_vars

(***************************************************************************)
(* One synthesis call: a request, the reading of its body, for             *)
(* synthesizeChunk the loading of the audio element, and the retries       *)
(***************************************************************************)
SynthOps == {"synthesizeChunkOnly", "synthesizeChunk"}
SynthTexts == {<< "a", "." >>, << "a", "b", "." >>}

\* the responses that are not ok, as status and status text
HttpFailures ==
  { << "500", << "Internal", "Server", "Error" >> >>,
    << "504", << "Gateway", "Timeout" >> >>,
    << "504", << "Gateway", "timeout" >> >> }
\* the data.error of a response that is ok
ErrorPayloads ==
  { << "Azure", "TTS", "failed:", "429" >>, << "upstream", "request", "timeout" >> }

\* the call up to its fetch
Synthesize(op, text) ==
  /\ synth.pc = "idle"
  /\ synth' = [IdleSynth EXCEPT !.pc = "fetch", !.op = op, !.text = text,
                                !.requests = 1]
  /\ UNCHANGED << mixerVars, playVars, calls, load, parse, encoded, detected, chunked >>

\* the fetch settles: aborted by the timer, no connection, a response that
\* is not ok, or a response that is ok, whose body is read next
FetchSettles ==
  /\ synth.pc = "fetch"
  /\ \/ synth' = Catch(synth, AbortError)
     \/ synth' = Catch(synth, NetworkError)
     \/ \E failure \in HttpFailures :
          synth' = Catch(synth, HttpError(failure[1], failure[2]))
     \/ synth' = [synth EXCEPT !.pc = "json"]
  /\ UNCHANGED << mixerVars, playVars, calls, load, parse, encoded, detected, chunked >>

\* response.json() settles: no JSON, an error payload, or the audio, which
\* synthesizeChunkOnly keeps and synthesizeChunk loads into an element
JsonSettles ==
  /\ synth.pc = "json"
  /\ \/ synth' = Catch(synth, JsonError)
     \/ \E text \in ErrorPayloads : synth' = Catch(synth, PayloadError(text))
     \/ synth' = IF synth.op = "synthesizeChunkOnly"
                 THEN [synth EXCEPT !.pc = "resolved", !.audioData = Speech10s,
                                    !.settled = @ + 1]
                 ELSE [synth EXCEPT !.pc = "audio", !.audioData = Speech10s]
  /\ UNCHANGED << mixerVars, playVars, calls, load, parse, encoded, detected, chunked >>

\* the audio element fires canplaythrough or error
AudioSettles ==
  /\ synth.pc = "audio"
  /\ \/ synth' = [synth EXCEPT !.pc = "resolved", !.settled = @ + 1]
     \/ synth' = Catch(synth, AudioLoadingFailed)
  /\ UNCHANGED << mixerVars, playVars, calls, load, parse, encoded, detected, chunked >>

\* the timer of the retry fires: the call is made again with retryCount + 1
BackoffElapses ==
  /\ synth.pc = "backoff"
  /\ synth' = [synth EXCEPT !.pc = "fetch", !.retryCount = @ + 1,
                            !.requests = @ + 1]
  /\ UNCHANGED << mixerVars, playVars, calls, load, parse, encoded, detected, chunked >>

NextSynth ==
  \/ \E op \in SynthOps, text \in SynthTexts : Synthesize(op, text)
  \/ FetchSettles
  \/ JsonSettles
  \/ AudioSettles
  \/ BackoffElapses

SpecSynth == Init /\ [][NextSynth]_vars

\* every request, body, audio element and timer settles
SpecSynthLive ==
  /\ SpecSynth
  /\ WF_vars(FetchSettles) /\ WF_vars(JsonSettles)
  /\ WF_vars(AudioSettles) /\ WF_vars(BackoffElapses)

(***************************************************************************)
(* Properties                                                              *)
(***************************************************************************)
\* createMixedAudioWithOutro has scheduled the gains of this call
Scheduled(r) == r.op = "mixWithSpeech" /\ r.musicIntroGain # <<>>

\* the durations of the timeline example, with 10 s of speech
IsTimelineExample(r) ==
  /\ Scheduled(r)
  /\ r.config.introDuration = 22000 /\ r.config.introFadeDuration = 7000
  /\ r.config.outroEnabled /\ r.config.outroDuration = 15000
  /\ r.config.outroFadeInDuration = 10000 /\ r.config.outroFadeOutDuration = 5000
  /\ r.speechDuration = 10000

\* C1: with introDuration 22 s, introFadeDuration 7 s, 10 s of speech and an
\* outro of 15 s with a 10 s fade in and a 5 s fade out, the timing is
\* fadeStart 22, fadeEnd 29, speechStart 25.5, speechEnd 35.5,
\* outroFadeInStart 25.5, outroHoldEnd 45.5, outroFadeOutEnd 50.5 and
\* totalDuration 54.5
C1_TimelineExample ==
  \A c \in Slots :
    IsTimelineExample(calls[c]) =>
      /\ calls[c].timing =
           [fadeStartTime |-> 22000, fadeEndTime |-> 29000,
            speechStartTime |-> 25500, speechEndTime |-> 35500, outro |-> TRUE,
            outroFadeInStart |-> 25500, outroFadeInEnd |-> 35500,
            outroFullVolumeEnd |-> 45500, outroFadeOutEnd |-> 50500]
      /\ calls[c].totalDuration = 54500

\* the example has been scheduled and is rendering
C1_Witness ==
  \E c \in Slots : IsTimelineExample(calls[c]) /\ calls[c].pc = "rendering"

\* C2: parseBreakTimings of 'Hello <break time="2s"/> world' without a
\* speech buffer returns exactly one marker, at 0.4 s, of 2.0 s
C2_HelloBreakWorld ==
  (parse.done /\ parse.text = HelloBreakWorld /\ parse.speechBuffer = NoBuffer)
    => parse.timings = << [position |-> 400, duration |-> 2000] >>

\* the <break time="..."/> tags of a normalized text, by index, in order
RECURSIVE BreakTagsFrom(_, _)
BreakTagsFrom(text, i) ==
  IF i > Len(text) THEN <<>>
  ELSE (IF text[i].k = "break" THEN <<i>> ELSE <<>>) \o BreakTagsFrom(text, i + 1)
BreakTags(normalizedText) == BreakTagsFrom(normalizedText, 1)
TagDurations(normalizedText) ==
  [i \in 1..Len(BreakTags(normalizedText)) |->
     BreakDuration(normalizedText[BreakTags(normalizedText)[i]])]

\* some but not all of the tags of the text find a qualifying silence segment
PartialAlignment(text, speechBuffer) ==
  LET expected == TagDurations(NormalizeText(text))
      matched == AlignBreaks(expected, 1, detectSilenceSegments(speechBuffer),
                             {}, <<>>)
  IN speechBuffer # NoBuffer /\ 0 < Len(matched) /\ Len(matched) < Len(expected)

\* the word-rate estimate of every tag of the text
TagEstimate(text, speechBuffer) ==
  LET normalizedText == NormalizeText(text)
      totalWords == CountWords(normalizedText, 1, Len(normalizedText))
      speaking == MathMax(100, BufferDuration(speechBuffer)
                                 - SumSeq(TagDurations(normalizedText)))
      rate == IF speechBuffer # NoBuffer /\ totalWords > 0
              THEN [words |-> totalWords, ms |-> speaking]
              ELSE [words |-> 5, ms |-> 2000]
  IN EstimateBreaks(normalizedText, BreakTags(normalizedText), 1, rate, 0, 1, <<>>)

\* C3: alignment is all or nothing: when at least one but not every
\* expected break finds a qualifying silence segment, every break of the
\* text is returned at its word-rate estimate
C3_AllOrNothing ==
  (parse.done /\ PartialAlignment(parse.text, parse.speechBuffer))
    => parse.timings = TagEstimate(parse.text, parse.speechBuffer)

\* the events an AudioParam keeps of a sequence of calls: a call replaces
\* an earlier call of the same type at the same time
Replaced(callSeq, i) ==
  \E j \in (i + 1)..Len(callSeq) :
    callSeq[j].op = callSeq[i].op /\ callSeq[j].time = callSeq[i].time
EnvelopeValid(callSeq) ==
  /\ \A i, j \in 1..Len(callSeq) :
       (i < j /\ ~Replaced(callSeq, i) /\ ~Replaced(callSeq, j))
         => callSeq[i].time < callSeq[j].time
  /\ \A i \in 1..Len(callSeq) : 0 <= callSeq[i].value /\ callSeq[i].value <= 15000

\* C4: every gain envelope scheduled for a track (intro music, speech,
\* outro music, each break effect) has strictly increasing breakpoint times
\* and values in [0, 1.5]
C4_EnvelopeValidity ==
  \A c \in Slots :
    Scheduled(calls[c]) =>
      /\ EnvelopeValid(calls[c].musicIntroGain)
      /\ EnvelopeValid(calls[c].speechGain)
      /\ EnvelopeValid(calls[c].musicOutroGain)
      /\ \A i \in 1..Len(calls[c].breakGains) : EnvelopeValid(calls[c].breakGains[i])

\* C5: for any configuration and speech duration every timestamp used for
\* scheduling is >= 0, and no configuration is rejected
C5_ClampedNeverRejected ==
  \A c \in Slots :
    calls[c].op = "mixWithSpeech" =>
      /\ calls[c].timing.fadeStartTime >= 0 /\ calls[c].timing.fadeEndTime >= 0
      /\ calls[c].timing.speechStartTime >= 0 /\ calls[c].timing.speechEndTime >= 0
      /\ calls[c].timing.outroFadeInStart >= 0 /\ calls[c].timing.outroFadeInEnd >= 0
      /\ calls[c].timing.outroFullVolumeEnd >= 0
      /\ calls[c].timing.outroFadeOutEnd >= 0
      /\ calls[c].error \notin {"RangeError", "NotSupportedError"}

\* a <= b, unless one of them is a value clamped at 0
OrderedOrClamped(a, b) == a <= b \/ a = 0 \/ b = 0

InFlight == {c \in Slots : calls[c].pc \notin {"idle", "resolved", "rejected"}}

\* C7: at most one mix is in progress on a mixer at a time: a request made
\* while another is in progress does not run beside it
C7_SingleFlight == Cardinality(InFlight) <= 1

\* C8 as stated: the output of the bypass is byte-identical to the speech
\* decoded and encoded again
C8_BypassReencodes ==
  \A c \in Slots :
    (calls[c].result.kind = "speechOnly"
     /\ ~DecodeFails(Atob(calls[c].speechAudioData)))
      => calls[c].result.mixedBlob =
           audioBufferToBlob(
             decodeAudioData(Atob(calls[c].speechAudioData), ContextSampleRate))

\* C8, amended: a call with a disabled configuration resolves at once
\* without decoding or rendering, and the output of the bypass is the
\* speech asset unchanged: the base64-decoded bytes as an audio/mp3 blob
C8_BypassReturnsSpeech ==
  \A c \in Slots :
    /\ (calls[c].op = "mixWithSpeech" /\ ~calls[c].config.enabled)
         => calls[c].pc = "resolved" /\ calls[c].result.kind = "speechOnly"
    /\ calls[c].result.kind = "speechOnly"
         => /\ calls[c].result.mixedBlob =
                 Blob("audio/mp3", Atob(calls[c].speechAudioData))
            /\ ~calls[c].rendered
            /\ calls[c].speechDuration = 0

\* a disabled call has resolved with the speech that decodes
C8_Witness ==
  \E c \in Slots :
    /\ calls[c].op = "mixWithSpeech" /\ ~calls[c].config.enabled
    /\ calls[c].pc = "resolved" /\ calls[c].result.kind = "speechOnly"
    /\ calls[c].speechAudioData = SpeechWithPause

\* C9 as stated: an enabled mix without a usable intro asset fails; so a
\* call with config.enabled never resolves with the speech alone
C9_NoIntroIsAnError ==
  \A c \in Slots :
    ~(calls[c].op = "mixWithSpeech" /\ calls[c].config.enabled
      /\ calls[c].pc = "resolved" /\ calls[c].result.kind = "speechOnly")

\* mixWithSpeech is called in slot c while neither introBuffer nor
\* musicBuffer is loaded
CalledWithoutIntro(c) ==
  /\ calls[c].pc = "idle" /\ calls'[c].op = "mixWithSpeech"
  /\ introBuffer = NoBuffer /\ musicBuffer = NoBuffer

\* C9, amended: mixWithSpeech called with config.enabled while neither
\* introBuffer nor musicBuffer is loaded resolves at once with the speech
\* alone, without an error
C9_NoIntroBypasses ==
  [][\A c \in Slots :
       CalledWithoutIntro(c) =>
         /\ calls'[c].pc = "resolved" /\ calls'[c].error = ""
         /\ calls'[c].result = createSpeechOnlyUrl(calls'[c].speechAudioData)]_vars

\* an enabled call has resolved with the speech alone and no intro is loaded
C9_Witness ==
  \E c \in Slots :
    /\ calls[c].op = "mixWithSpeech" /\ calls[c].config.enabled
    /\ calls[c].pc = "resolved" /\ calls[c].result.kind = "speechOnly"
    /\ introBuffer = NoBuffer /\ musicBuffer = NoBuffer

\* C10: when the offline rendering fails the call ends in an error and
\* returns nothing: a mixed result is only ever that of a finished render
C10_NoPartialOutput ==
  \A c \in Slots :
    /\ calls[c].pc = "rejected" => calls[c].result = NoResult
    /\ calls[c].result.kind = "mixed"
         => calls[c].rendered /\ calls[c].pc = "resolved"
    /\ calls[c].error = "Failed to create mixed audio"
         => calls[c].pc = "rejected" /\ ~calls[c].rendered

\* a call whose rendering failed
C10_Witness ==
  \E c \in Slots :
    /\ calls[c].pc = "rejected" /\ calls[c].error = "Failed to create mixed audio"
    /\ calls[c].musicIntroGain # <<>>

\* the step of call c in which an awaited decode or the rendering fails
StageFails(c) ==
  /\ calls'[c] # calls[c]
  /\ \/ calls[c].pc = "decodeSpeech" /\ DecodeFails(Atob(calls[c].speechAudioData))
     \/ calls[c].pc \in {"decodeIntro", "decodeOutro", "decodeBreak"}
          /\ DecodeFails(calls[c].pending)
     \/ calls[c].pc = "rendering" /\ ~calls'[c].rendered /\ calls'[c].pc # "idle"

\* C11: no stage of the mix swallows an error: a failed decode (speech,
\* intro, outro, break sound) or a failed rendering rejects the call with
\* an error and without a result, no exception is caught and only logged,
\* and a call that reaches the renderer has met no error
C11_ErrorsSurface ==
  /\ [](\A c \in Slots :
         /\ calls[c].caught = 0
         /\ (calls[c].op = "mixWithSpeech" /\ calls[c].pc = "rendering")
              => /\ ~DecodeFails(Atob(calls[c].speechAudioData))
                 /\ calls[c].introBufferToUse # NoBuffer
                 /\ ~ThrowsRangeError(calls[c].musicIntroGain \o calls[c].speechGain
                                         \o calls[c].musicOutroGain))
  /\ [][\A c \in Slots :
         StageFails(c) =>
           /\ calls'[c].pc = "rejected" /\ calls'[c].error # ""
           /\ calls'[c].result = NoResult]_vars

\* a call rejected by the decoding of intro bytes that are no audio
C11_Witness ==
  \E c \in Slots :
    /\ calls[c].pc = "rejected" /\ calls[c].error = "DecodeError"
    /\ calls[c].pending = CorruptFile
    /\ ~DecodeFails(Atob(calls[c].speechAudioData))

\* reading the encoded file: a little-endian field at a byte offset
ReadUint16(bytes, offset) == bytes[offset + 1] + 256 * bytes[offset + 2]
ReadUint32(bytes, offset) ==
  bytes[offset + 1] + 256 * bytes[offset + 2] + 65536 * bytes[offset + 3]
    + 16777216 * bytes[offset + 4]
ReadInt16(bytes, offset) ==
  IF ReadUint16(bytes, offset) >= 32768 THEN ReadUint16(bytes, offset) - 65536
  ELSE ReadUint16(bytes, offset)

\* the 16-bit sample of frame i, channel ch, decoded as x / 32768, less the
\* sample that was encoded (in 1/65536: a 16-bit step is 2)
RoundTripError(i, ch) ==
  2 * ReadInt16(encoded.blob.bytes,
                44 + 2 * ((i - 1) * encoded.buffer.numberOfChannels + (ch - 1)))
    - Frames(encoded.buffer.runs)[i][ch]

HeaderKeepsFormat ==
  /\ ReadUint16(encoded.blob.bytes, 22) = encoded.buffer.numberOfChannels
  /\ ReadUint32(encoded.blob.bytes, 24) = encoded.buffer.sampleRate

\* C12 as stated: every sample in [-1, 1] comes back within one 16-bit
\* step (1/32768), and the header keeps the channel count and sample rate
C12_WithinOneStep ==
  encoded.done =>
    /\ HeaderKeepsFormat
    /\ \A i \in 1..BufferLength(encoded.buffer) :
         \A ch \in 1..encoded.buffer.numberOfChannels :
           Abs(Frames(encoded.buffer.runs)[i][ch]) <= 65536
             => Abs(RoundTripError(i, ch)) <= 2

\* C12, amended: every sample in [-1, 1] comes back less than two 16-bit
\* steps below or at its value when it is >= 0, and less than one step
\* above or at its value when it is < 0; the header keeps the channel count
\* and the sample rate
C12_WithinTwoSteps ==
  encoded.done =>
    /\ HeaderKeepsFormat
    /\ \A i \in 1..BufferLength(encoded.buffer) :
         \A ch \in 1..encoded.buffer.numberOfChannels :
           Abs(Frames(encoded.buffer.runs)[i][ch]) <= 65536 =>
             IF Frames(encoded.buffer.runs)[i][ch] >= 0
             THEN -4 < RoundTripError(i, ch) /\ RoundTripError(i, ch) <= 0
             ELSE 0 <= RoundTripError(i, ch) /\ RoundTripError(i, ch) < 2

\* a stereo buffer holding a sample just below 1 has been encoded, and the
\* sample comes back more than one step low
C12_Witness ==
  /\ encoded.done /\ encoded.buffer.numberOfChannels = 2
  /\ BufferLength(encoded.buffer) = 2
  /\ Frames(encoded.buffer.runs)[2][2] = 65535
  /\ RoundTripError(2, 2) = -3

\* the four bytes at an offset of the encoded file
FourBytes(bytes, offset) == SubSeq(bytes, offset + 1, offset + 4)

\* C13: the encoder output for C channels, rate R and N frames is 44 + N*C*2
\* bytes: 'RIFF', total - 8, 'WAVE', 'fmt ', 16, format 1, C, R, byte rate
\* R * blockAlign, blockAlign C * 2, 16 bits, 'data', N * blockAlign, then
\* the 16-bit samples frame by frame, channel by channel within a frame
C13_WavLayout ==
  encoded.done =>
    LET bytes == encoded.blob.bytes
        C == encoded.buffer.numberOfChannels
        R == encoded.buffer.sampleRate
        N == BufferLength(encoded.buffer)
        blockAlign == C * 2
    IN /\ Len(bytes) = 44 + N * C * 2
       /\ FourBytes(bytes, 0) = <<82, 73, 70, 70>>
       /\ ReadUint32(bytes, 4) = Len(bytes) - 8
       /\ FourBytes(bytes, 8) = <<87, 65, 86, 69>>
       /\ FourBytes(bytes, 12) = <<102, 109, 116, 32>>
       /\ ReadUint32(bytes, 16) = 16
       /\ ReadUint16(bytes, 20) = 1
       /\ ReadUint16(bytes, 22) = C
       /\ ReadUint32(bytes, 24) = R
       /\ ReadUint32(bytes, 28) = R * blockAlign
       /\ ReadUint16(bytes, 32) = blockAlign
       /\ ReadUint16(bytes, 34) = 16
       /\ FourBytes(bytes, 36) = <<100, 97, 116, 97>>
       /\ ReadUint32(bytes, 40) = N * blockAlign
       /\ \A i \in 1..N : \A ch \in 1..C :
            LET sample == Frames(encoded.buffer.runs)[i][ch]
                written == ReadInt16(bytes, 44 + 2 * ((i - 1) * C + (ch - 1)))
            IN Abs(sample) <= 65536 =>
                 written = (IF sample < 0 THEN -((-sample) \div 2)
                            ELSE (sample * 32767) \div 65536)

\* a stereo buffer of two frames with four different samples has been
\* encoded into 52 bytes
C13_Witness ==
  /\ encoded.done /\ encoded.buffer.numberOfChannels = 2
  /\ encoded.buffer.sampleRate = 44100
  /\ Frames(encoded.buffer.runs) = << <<-65536, 65536>>, <<-32769, 65535>> >>
  /\ Len(encoded.blob.bytes) = 52
  /\ encoded.blob.type = "audio/wav"

\* the inputs of a call: speech bytes, config and markup text
SameInputs(r, q) ==
  /\ r.op = "mixWithSpeech" /\ q.op = "mixWithSpeech"
  /\ r.speechAudioData = q.speechAudioData
  /\ r.config = q.config
  /\ r.originalText = q.originalText

ToneZerosTone(buffer) ==
  /\ buffer.sampleRate = 44100 /\ buffer.numberOfChannels = 1
  /\ Len(buffer.runs) = 3
  /\ \A k \in 1..3 : buffer.runs[k].n = 44100
  /\ buffer.runs[2].amp = <<0>>
  /\ buffer.runs[1].amp = buffer.runs[3].amp
  /\ Abs(buffer.runs[1].amp[1]) * 1000 >= 15 * 65536

\* C15: for 1 s of tone, 1 s of zeros and 1 s of tone, mono at 44100 Hz,
\* detectSilenceSegments returns exactly one segment, whose start and
\* duration are both within 0.15 s of 1.0 s
C15_OneSecondOfSilence ==
  (detected.done /\ ToneZerosTone(detected.buffer))
    => /\ Len(detected.segments) = 1
       /\ Abs(detected.segments[1].start - 1000) <= 150
       /\ Abs(detected.segments[1].duration - 1000) <= 150

\* the detection has been applied to tone, zeros, tone with a half-scale tone
C15_Witness ==
  /\ detected.done /\ ToneZerosTone(detected.buffer)
  /\ detected.buffer.runs[1].amp = <<32768>>
  /\ detected.segments = << [start |-> 1000, duration |-> 960] >>

\* the text holds no break tag of any form
NoBreakTag(text) == \A i \in 1..Len(text) : text[i].k \notin {"break", "bare"}

\* a call of mixWithSpeech with music enabled on a text without break tag
MixOfPlainText(r) ==
  r.op = "mixWithSpeech" /\ r.config.enabled /\ NoBreakTag(r.originalText)

\* C16: for a text without break tag, parseBreakTimings returns the empty
\* list; addBreakSounds schedules no break effect, catches no error and
\* rejects nothing; the call goes on to the render and, when the render
\* finishes, resolves with the mix
C16_NoBreakNoEffect ==
  /\ [](\A c \in Slots :
         MixOfPlainText(calls[c]) =>
           /\ parseBreakTimings(calls[c].originalText, NoBuffer) = <<>>
           /\ ~DecodeFails(Atob(calls[c].speechAudioData))
                => parseBreakTimings(calls[c].originalText,
                                     SpeechBufferOf(calls[c])) = <<>>
           /\ calls[c].breakTimings = <<>> /\ calls[c].breakGains = <<>>
           /\ calls[c].caught = 0
           /\ calls[c].pc # "decodeBreak"
           /\ calls[c].pc = "rejected"
                => \/ calls[c].error = "Failed to create mixed audio"
                   \/ DecodeFails(Atob(calls[c].speechAudioData)))
  /\ [][\A c \in Slots :
         (MixOfPlainText(calls[c]) /\ calls[c].pc \in {"decodeIntro", "decodeOutro"}
            /\ calls'[c] # calls[c] /\ calls'[c].pc # "decodeOutro")
           => calls'[c].pc = "rendering"]_vars
  /\ [][\A c \in Slots :
         (MixOfPlainText(calls[c]) /\ calls[c].pc = "rendering"
            /\ calls'[c].rendered)
           => /\ calls'[c].pc = "resolved"
              /\ calls'[c].result = MixedResult(calls[c])]_vars

\* a mix of a text without break tag has resolved with the mixed audio
C16_Witness ==
  \E c \in Slots :
    /\ MixOfPlainText(calls[c]) /\ calls[c].originalText = PlainText
    /\ calls[c].pc = "resolved" /\ calls[c].result.kind = "mixed"
    /\ calls[c].breakGains = <<>>

\* C17: in the offline mix the intro music gain is set to musicVolume at 0
\* and at fadeStart, and then ramps to fadeEnd with the curve of
\* config.fadeType: a linear ramp to 0 for 'linear', an exponential ramp for
\* 'exponential'
C17_FadeCurve ==
  \A c \in Slots :
    (Scheduled(calls[c]) /\ calls[c].pc \in {"rendering", "resolved"}) =>
      LET g == calls[c].musicIntroGain
          config == calls[c].config
      IN /\ Len(g) = 3
         /\ g[1] = SetValueAtTime(config.musicVolume, 0)
         /\ g[2] = SetValueAtTime(config.musicVolume, calls[c].timing.fadeStartTime)
         /\ g[3].time = calls[c].timing.fadeEndTime
         /\ IF config.fadeType = "exponential"
            THEN g[3].op = "exponentialRampToValueAtTime"
            ELSE g[3] = LinearRampToValueAtTime(0, calls[c].timing.fadeEndTime)

\* the outro gain calls of a call: 0 at 0, 0 at outroFadeInStart, a linear
\* ramp to min(1, musicVolume * 1.2) at outroFadeInEnd, that value again at
\* outroHoldEnd, a linear ramp to 0 at outroFadeOutEnd; the peak is at most 1
OutroEnvelopeCalls(r) ==
  LET t == r.timing
      peak == IF r.config.musicVolume * 12 >= 100000 THEN 10000
              ELSE (r.config.musicVolume * 12) \div 10
  IN /\ r.musicOutroGain =
          << [op |-> "setValueAtTime", value |-> 0, time |-> 0],
             [op |-> "setValueAtTime", value |-> 0, time |-> t.outroFadeInStart],
             [op |-> "linearRampToValueAtTime", value |-> peak,
              time |-> t.outroFadeInEnd],
             [op |-> "setValueAtTime", value |-> peak,
              time |-> t.outroFullVolumeEnd],
             [op |-> "linearRampToValueAtTime", value |-> 0,
              time |-> t.outroFadeOutEnd] >>
     /\ \A i \in 1..Len(r.musicOutroGain) :
          0 <= r.musicOutroGain[i].value /\ r.musicOutroGain[i].value <= 10000

\* the breakpoints come in the order in which the shape names them
OutroEnvelopeOrdered(r) ==
  /\ 0 <= r.timing.outroFadeInStart
  /\ r.timing.outroFadeInStart <= r.timing.outroFadeInEnd
  /\ r.timing.outroFadeInEnd <= r.timing.outroFullVolumeEnd
  /\ r.timing.outroFullVolumeEnd <= r.timing.outroFadeOutEnd

\* C18 as stated: whenever the outro is enabled and scheduled, the outro
\* gain is 0 until outroFadeInStart, rises linearly to min(1, musicVolume *
\* 1.2) at outroFadeInEnd, holds until outroHoldEnd and falls linearly to 0
\* at outroFadeOutEnd, never above 1
C18_OutroEnvelope ==
  \A c \in Slots :
    (Scheduled(calls[c]) /\ calls[c].config.outroEnabled /\ calls[c].timing.outro)
      => OutroEnvelopeCalls(calls[c]) /\ OutroEnvelopeOrdered(calls[c])

\* the speaking rate of a text, as words per ms: 2.5 words/s, or the words of
\* the text over the speech duration less the breaks (at least 0.1 s)
TagRate(text, speechBuffer) ==
  LET normalizedText == NormalizeText(text)
      totalWords == CountWords(normalizedText, 1, Len(normalizedText))
      speaking == MathMax(100, BufferDuration(speechBuffer)
                                 - SumSeq(TagDurations(normalizedText)))
  IN IF speechBuffer # NoBuffer /\ totalWords > 0
     THEN [words |-> totalWords, ms |-> speaking]
     ELSE [words |-> 5, ms |-> 2000]

\* every tag of the text finds a qualifying silence segment of its own
ExactAlignment(text, speechBuffer) ==
  LET expected == TagDurations(NormalizeText(text))
  IN /\ speechBuffer # NoBuffer /\ Len(expected) > 0
     /\ Len(AlignBreaks(expected, 1, detectSilenceSegments(speechBuffer), {}, <<>>))
          = Len(expected)

\* C19: in the word-rate estimate there is one marker per break tag, in text
\* order; the position of marker i is the number of words before tag i
\* divided by the rate, plus the durations of the markers before it (each
\* step rounded down to a ms); so position[i+1] >= position[i] + duration[i]
C19_WordRatePositions ==
  (parse.done /\ ~ExactAlignment(parse.text, parse.speechBuffer)) =>
    LET normalizedText == NormalizeText(parse.text)
        tags == BreakTags(normalizedText)
        rate == TagRate(parse.text, parse.speechBuffer)
        timings == parse.timings
    IN /\ Len(timings) = Len(tags)
       /\ \A i \in 1..Len(timings) :
            LET wordsBefore == CountWords(normalizedText, 1, tags[i] - 1)
                earlier == SumSeq(SubSeq(TagDurations(normalizedText), 1, i - 1))
                lost == wordsBefore * rate.ms + earlier * rate.words
                          - timings[i].position * rate.words
            IN /\ timings[i].duration = TagDurations(normalizedText)[i]
               /\ 0 <= lost /\ lost < i * rate.words
       /\ \A i \in 1..(Len(timings) - 1) :
            timings[i + 1].position >= timings[i].position + timings[i].duration

\* the unused segment of a duration of at least 70% of the expected one that
\* is closest to it in duration, the first one among equals; 0 when none
ClosestUnused(silenceSegments, used, expected) ==
  LET cands == {i \in 1..Len(silenceSegments) :
                  i \notin used /\ silenceSegments[i].duration * 10 >= expected * 7}
      dist(i) == Abs(silenceSegments[i].duration - expected)
      closest == {i \in cands : \A j \in cands : dist(i) <= dist(j)}
  IN IF cands = {} THEN 0 ELSE MinOf(closest)

\* the expected breaks matched greedily in text order: the segment of each
\* break (0 when it finds none)
RECURSIVE GreedyMatch(_, _, _, _)
GreedyMatch(expected, silenceSegments, used, matched) ==
  IF Len(matched) = Len(expected) THEN matched
  ELSE LET best == ClosestUnused(silenceSegments, used, expected[Len(matched) + 1])
       IN GreedyMatch(expected, silenceSegments,
                      IF best = 0 THEN used ELSE used \cup {best},
                      Append(matched, best))

\* C20: when every break tag of the text, taken in text order, finds its
\* closest-duration unused silence segment of at least 70% of its duration
\* (the first among equals), the result holds one marker per tag, at the
\* start of the tag's segment and of the tag's duration, no segment serving
\* two markers, and the markers are sorted by position
C20_GreedyAlignment ==
  parse.done =>
    LET expected == TagDurations(NormalizeText(parse.text))
        silenceSegments == IF parse.speechBuffer = NoBuffer THEN <<>>
                           ELSE detectSilenceSegments(parse.speechBuffer)
        matched == GreedyMatch(expected, silenceSegments, {}, <<>>)
    IN (Len(expected) > 0 /\ \A k \in 1..Len(matched) : matched[k] # 0) =>
         /\ Len(parse.timings) = Len(expected)
         /\ \A k \in 1..Len(expected) :
              \E j \in 1..Len(parse.timings) :
                parse.timings[j] = [position |-> silenceSegments[matched[k]].start,
                                    duration |-> expected[k]]
         /\ \A j \in 1..(Len(parse.timings) - 1) :
              parse.timings[j].position < parse.timings[j + 1].position

\* the pause tags of a markup text, bare ones included, by index, in order
PauseTags(text) ==
  LET idx == {i \in 1..Len(text) : text[i].k \in {"break", "bare"}}
      nth[n \in 0..Cardinality(idx)] ==
        IF n = 0 THEN 0 ELSE MinOf({i \in idx : i > nth[n - 1]})
  IN [n \in 1..Cardinality(idx) |-> nth[n]]

\* the duration a pause tag asks for, in ms: N for "Nms", 1000 N for "Ns",
\* 4500 for a bare tag
PauseOf(tok) ==
  IF tok.k = "bare" THEN 4500
  ELSE IF tok.unit = "ms" THEN tok.milli \div 1000 ELSE tok.milli

\* C21: the markers returned are as many as the pause tags of the text, and
\* their durations are the tags' durations (N/1000 s for "Nms", N s for "Ns",
\* 4.5 s for a bare tag), each as often as the tags ask for it
C21_OneMarkerPerTag ==
  parse.done =>
    LET tags == PauseTags(parse.text)
    IN /\ Len(parse.timings) = Len(tags)
       /\ \A d \in {500, 1000, 2000, 4500} :
            Cardinality({j \in 1..Len(parse.timings) : parse.timings[j].duration = d})
              = Cardinality({n \in 1..Len(tags) : PauseOf(parse.text[tags[n]]) = d})

\* C22: the segments detectSilenceSegments returns are each at least 0.4 s
\* long, and each begins more than 0.15 s after the end of the one before
\* it (so they are sorted by start and do not overlap)
C22_SegmentsApart ==
  detected.done =>
    /\ \A i \in 1..Len(detected.segments) : detected.segments[i].duration >= 400
    /\ \A i \in 1..(Len(detected.segments) - 1) :
         detected.segments[i].start + detected.segments[i].duration + 150
           < detected.segments[i + 1].start

\* two silences divided by a blip of 0.2 s have been detected as two
\* segments
C22_Witness ==
  /\ detected.done /\ Len(detected.segments) = 2
  /\ Len(detected.buffer.runs) = 5
  /\ detected.buffer.runs[3].n * 1000 = 200 * detected.buffer.sampleRate

\* the gain of one break effect as the claim describes it: 0 from the start
\* of the render, audible once the break starts, then a linear ramp down to
\* 0.0001 that ends playDuration after the start of the break
EffectOfBreak(gain, breakStart, playDuration) ==
  /\ Len(gain) = 3
  /\ gain[1] = SetValueAtTime(0, 0)
  /\ gain[2].op = "setValueAtTime" /\ gain[2].value > 1
  /\ gain[2].time <= breakStart /\ gain[2].time >= breakStart - 10
  /\ gain[3] = LinearRampToValueAtTime(1, breakStart + playDuration)

\* C23: a mix of a text with pause tags, with the break sound loaded, holds
\* one break effect per pause: it starts at speechStart + position, plays
\* for the pause clamped between 0.25 s and the length of the effect asset,
\* and its gain is 0, then audible at the break, then falls linearly to
\* 0.0001 at breakStart + playDuration
C23_BreakEffect ==
  \A c \in Slots :
    (Scheduled(calls[c]) /\ calls[c].pc \in {"rendering", "resolved"}
       /\ breakSoundArrayBuffer # NullBytes) =>
      LET r == calls[c]
          tags == PauseTags(r.originalText)
          asset == BufferDuration(decodeAudioData(breakSoundArrayBuffer, ContextSampleRate))
      IN /\ Len(r.breakGains) = Len(tags)
         /\ \A i \in 1..Len(r.breakGains) :
              \E position \in 0..r.speechDuration :
                EffectOfBreak(r.breakGains[i],
                  r.timing.speechStartTime + position,
                  MathMin(MathMax(250, PauseOf(r.originalText[tags[i]])), asset))

\* the durations of the configuration are not negative and the outro fade
\* out is not longer than the outro
DurationsFit(config) ==
  /\ config.introDuration >= 0 /\ config.introFadeDuration >= 0
  /\ config.outroFadeInDuration >= 0 /\ config.outroDuration >= 0
  /\ config.outroFadeOutDuration >= 0
  /\ config.outroFadeOutDuration <= config.outroDuration

\* C24: with non-negative durations and outroFadeOutDuration <=
\* outroDuration, fadeEnd, speechEnd = speechStart + max(speechDuration, 0.1)
\* and, for a scheduled outro, outroFadeOutEnd are at most totalDuration =
\* intro + fade + speech + (outro if enabled) + 0.5 s, and the rendered
\* buffer holds ceil(totalDuration * sampleRate) frames
C24_StagesInsideBuffer ==
  \A c \in Slots :
    (Scheduled(calls[c]) /\ DurationsFit(calls[c].config)) =>
      LET r == calls[c]
          t == r.timing
          total == r.config.introDuration + r.config.introFadeDuration
                     + r.speechDuration
                     + (IF r.config.outroEnabled THEN r.config.outroDuration ELSE 0)
                     + 500
      IN /\ r.totalDuration = total
         /\ t.fadeEndTime <= total
         /\ t.speechEndTime = t.speechStartTime + MathMax(r.speechDuration, 100)
         /\ t.speechEndTime <= total
         /\ t.outro => t.outroFadeOutEnd <= total
         /\ r.length * 1000 >= total * ContextSampleRate
         /\ (r.length - 1) * 1000 < total * ContextSampleRate

\* a mix of an empty speech with no fade was scheduled (the floor of 0.1 s
\* ends inside the padding), and one whose length is not a whole number of
\* frames was rendered with its outro
C24_Witness ==
  \E c \in Slots :
    /\ Scheduled(calls[c]) /\ DurationsFit(calls[c].config)
    /\ calls[c].timing.outro /\ calls[c].pc = "resolved"
    /\ \/ calls[c].speechDuration = 0 /\ calls[c].config.introFadeDuration = 0
       \/ (calls[c].totalDuration * ContextSampleRate) % 1000 # 0

\* stop() was called during the sequence of slot c: its timers are pending
\* (before the fade, or during the fade before or after the speech timer)
\* and isMixing, set when the sequence began, is false again
StoppedSequence(c) ==
  /\ calls[c].op = "playMixedSequence"
  /\ calls[c].pc \in {"intro", "fading", "speechStarted"}
  /\ ~isMixing

\* C25: after stop() during a playMixedSequence nothing further happens for
\* that sequence: the fade is not scheduled on the gain, the speech does not
\* start (no onSpeechStart, and so no onMixComplete), and the music-end
\* timer does not run onMusicEnd
C25_StopIsFinal ==
  [][\A c \in Slots :
       StoppedSequence(c) =>
         /\ ~(calls[c].pc = "intro" /\ calls'[c].pc = "fading")
         /\ ~(calls[c].pc = "fading" /\ calls'[c].pc = "speechStarted")
         /\ ~(calls[c].pc = "fading" /\ speechAudio' = "playing")
         /\ ~(calls[c].pc = "speechStarted" /\ calls'[c].pc = "idle")]_vars

\* the 16-bit value written for frame i, channel ch
WrittenSample(i, ch) ==
  ReadInt16(encoded.blob.bytes,
            44 + 2 * ((i - 1) * encoded.buffer.numberOfChannels + (ch - 1)))

\* C26: the encoder does not wrap around: the 16-bit value written for a
\* sample, also for one of magnitude above 1.0, is never of the opposite
\* sign (a positive sample is not stored as a negative integer, a negative
\* one not as a positive integer)
C26_NoWrapAround ==
  encoded.done =>
    \A i \in 1..BufferLength(encoded.buffer) :
      \A ch \in 1..encoded.buffer.numberOfChannels :
        /\ Frames(encoded.buffer.runs)[i][ch] > 0 => WrittenSample(i, ch) >= 0
        /\ Frames(encoded.buffer.runs)[i][ch] < 0 => WrittenSample(i, ch) <= 0

\* the decoded buffer and the raw bytes of an asset are of the same file
\* (or both are not loaded)
SameFile(buffer, arrayBuffer) ==
  IF arrayBuffer = NullBytes THEN buffer = NoBuffer
  ELSE /\ ~DecodeFails(arrayBuffer)
       /\ buffer = decodeAudioData(arrayBuffer, ContextSampleRate)

\* C27: a loadIntroOutroFiles that fails leaves the six asset fields as they
\* were, so whenever no load is in flight the decoded intro, outro and break
\* sound are the decodings of the raw bytes kept beside them
C27_FailedLoadChangesNothing ==
  load.pc = "idle" =>
    /\ SameFile(introBuffer, introArrayBuffer)
    /\ SameFile(outroBuffer, outroArrayBuffer)
    /\ SameFile(breakSoundBuffer, breakSoundArrayBuffer)

RECURSIVE NonWhitespace(_)
NonWhitespace(str) ==
  IF str = <<>> THEN <<>>
  ELSE (IF IsWhitespace(Head(str)) THEN <<>> ELSE << Head(str) >>)
         \o NonWhitespace(Tail(str))

\* the chunks one after the other
RECURSIVE Concatenated(_)
Concatenated(chunks) ==
  IF chunks = <<>> THEN <<>> ELSE Head(chunks) \o Concatenated(Tail(chunks))

\* part is found in whole, in order (not necessarily side by side)
RECURSIVE IsSubsequence(_, _)
IsSubsequence(part, whole) ==
  IF part = <<>> THEN TRUE
  ELSE IF whole = <<>> THEN FALSE
  ELSE IF Head(part) = Head(whole) THEN IsSubsequence(Tail(part), Tail(whole))
  ELSE IsSubsequence(part, Tail(whole))

\* C29: chunkText loses no text: the chunks, one after the other, hold
\* every character of the input that is no whitespace, in the order of the
\* input, text after the last '.', '!' or '?' included
C29_NoTextLost ==
  chunked.done =>
    IsSubsequence(NonWhitespace(chunked.text),
                  NonWhitespace(Concatenated(chunked.chunks)))

\* the call has settled: its promise is resolved or rejected
Settled == synth.pc \in {"resolved", "rejected"}

====
